---- MODULE Spec2Model ----
(***************************************************************************)
(* Model of the log-analyzer pipeline: the windowed fetcher                *)
(* (internal/fetcher/fetcher.go), the normalizer / grouper                 *)
(* (internal/normalizer/normalizer.go), the aggregator and the analysis    *)
(* step (internal/pipeline/pipeline.go) and the known-issue registry       *)
(* (internal/config/known_issues.go).                                      *)
(*                                                                         *)
(* The state holds strings; the operators that model regular expressions   *)
(* and formatting act on their characters (Chars) and join the result.     *)
(* Instants of the fetcher are milliseconds; timestamps of parsed records  *)
(* are minutes since the zero time.                                        *)
(***************************************************************************)

EXTENDS Integers, Sequences, FiniteSets, TLC

VARIABLES
  logs,         \* []models.ParsedLog handed to Normalize
  idx,          \* number of records the loop of NormalizeWithConfig has folded
  groupMap,     \* groupMap: fingerprint -> *ErrorGroup
  errorGroups,  \* the slice returned by Normalize
  aggResult,    \* the AggregationResult returned by Aggregate
  analyses,     \* the slice returned by createAnalysesFromErrorGroups
  npc,          \* position of the stages: "loop", "normalized", "aggregated", "done"
  run,          \* 1 for the first run over logs, 2 for the repeated run
  firstRun,     \* ErrorGroups, Aggregation and Analyses of the first run
  timeRange,    \* what time.ParseDuration makes of timeRangeStr: Valid, Duration (ms)
  endTime,      \* time.Now() taken by FetchWithTimeWindows (ms)
  indices,      \* config.OpenSearch.Indices
  urlOK,        \* whether config.OpenSearch.URL is accepted by http.NewRequest
  backend,      \* the documents held by the search backend
  fpc,          \* position of FetchWithTimeWindows / Pipeline.Run
  wi,           \* loop variable i of FetchWithTimeWindows
  windows,      \* the (windowStart, windowEnd) pairs handed to fetchFromWindow
  requests,     \* the search requests sent to the backend, in order
  allLogs,      \* allLogs of FetchWithTimeWindows
  fetchErr,     \* the error returned by FetchWithTimeWindows
  runResult,    \* how Pipeline.Run left the fetch step
  rawDocs,      \* rawLogs: the []models.RawLog handed to Process
  pi,           \* number of records the loop of Process has handled
  parsedLogs,   \* parsedLogs of Process
  processingErrors, \* processingErrors of Process: record index and error
  processErr,   \* the error returned by Process
  ppc,          \* position of Process / Pipeline.Run: "loop", "returned", "done", "panicked"
  preResult,    \* how Pipeline.Run left the preprocessing step
  regOnce,      \* regOnce: "fresh", "running" (its function runs) or "done"
  globalRegistry, \* "nil", or "set" once the registry is allocated
  regTable,     \* globalRegistry.issues: the issues registered so far
  registered,   \* loop variable i of initializePredefinedIssues
  populations,  \* number of times the function of regOnce.Do was started
  cpc,          \* position of each caller: "call", "init", "got", "locked", "returned"
  calls,        \* the read call each caller makes
  seen,         \* the maps each caller could read while it held the read lock
  results,      \* the value each caller's read call returned
  reportCounts, \* what extractCountFromReason returned for each analysis
  analysesByService, \* analysesByService of generatePerServiceReports
  reportFiles,  \* the report files written: service -> what the content says
  failedReports, \* the services whose report failure was printed
  reports,      \* result.Reports: service -> *models.Report
  rpc,          \* position of Pipeline.Run in the report steps
  runErr,       \* the error returned by Pipeline.Run, "none" before it returns
  fanServices,  \* config.Services handed to fetchConcurrent
  launched,     \* number of workers the loop of fetchConcurrent has started
  wgCount,      \* the counter of wg
  workerPc,     \* position of each worker: "idle", "fetch", "send", "sent", "done", "panicked"
  workerOut,    \* what fetchSingle returned to each worker: Ok, Logs
  resultsChan,  \* the values buffered in the channel results
  errorsChan,   \* the values buffered in the channel errors
  closes,       \* how often each of the two channels was closed
  closerPc,     \* position of the closing goroutine: "off", "wait", "results", "errors", "done"
  collectorPc,  \* position of fetchConcurrent itself: "launch", "select", "return", "returned"
  recvOpen,     \* whether the collector's results and errors are still non-nil
  fanLogs,      \* allLogs of fetchConcurrent
  fetchErrors,  \* fetchErrors of fetchConcurrent
  fanReturn,    \* what fetchConcurrent returned: Logs, Err
  envText,      \* the configuration text handed to substituteEnvVars
  environ,      \* the environment: variable name -> value
  envContent,   \* content of substituteEnvVars
  epc           \* position of substituteEnvVars: "off", "loop", "returned"

normVars  == <<logs, idx, groupMap, errorGroups, aggResult, analyses, npc, run,
               firstRun>>
fetchVars == <<timeRange, endTime, indices, urlOK, backend, fpc, wi, windows,
               requests, allLogs, fetchErr, runResult>>
preVars   == <<rawDocs, pi, parsedLogs, processingErrors, processErr, ppc, preResult>>
regVars   == <<regOnce, globalRegistry, regTable, registered, populations, cpc,
               calls, seen, results>>
repVars   == <<reportCounts, analysesByService, reportFiles, failedReports,
               reports, rpc, runErr>>
fanVars   == <<fanServices, launched, wgCount, workerPc, workerOut, resultsChan,
               errorsChan, closes, closerPc, collectorPc, recvOpen, fanLogs,
               fetchErrors, fanReturn>>
envVars   == <<envText, environ, envContent, epc>>
tailVars  == <<fanVars, envVars>>
restVars  == <<preVars, regVars, repVars, tailVars>>
vars      == <<normVars, fetchVars, preVars, regVars, repVars, fanVars, envVars>>

-----------------------------------------------------------------------------
(* Bounds of the model.                                                    *)

MaxLogs == 3

\* longest input of the repeated runs
MaxRerunLogs == 2

MaxDSteps == 6

\* longest input of the preprocessor
MaxRaw == 2

\* number of concurrent callers of GetRegistry
MaxCallers == 2

\* largest number of repetitions of one record
MaxCount == 51

\* longest input that is run again in another order
MaxPermLogs == 6

\* longest input of the runs that go on to the reports
MaxReportLogs == 3

\* largest number of analyses handed to the reporter
MaxAnalyses == 6

\* largest number of configured services
MaxServices == 3

\* longest configuration text
MaxTextLen == 4

-----------------------------------------------------------------------------
(* Characters.                                                             *)

Digits == {"0","1","2","3","4","5","6","7","8","9"}

HexDigits == Digits \cup {"a","b","c","d","e","f","A","B","C","D","E","F"}

LowerLetters ==
  {"a","b","c","d","e","f","g","h","i","j","k","l","m",
   "n","o","p","q","r","s","t","u","v","w","x","y","z"}

UpperToLower ==
     ("A" :> "a") @@ ("B" :> "b") @@ ("C" :> "c") @@ ("D" :> "d")
  @@ ("E" :> "e") @@ ("F" :> "f") @@ ("G" :> "g") @@ ("H" :> "h")
  @@ ("I" :> "i") @@ ("J" :> "j") @@ ("K" :> "k") @@ ("L" :> "l")
  @@ ("M" :> "m") @@ ("N" :> "n") @@ ("O" :> "o") @@ ("P" :> "p")
  @@ ("Q" :> "q") @@ ("R" :> "r") @@ ("S" :> "s") @@ ("T" :> "t")
  @@ ("U" :> "u") @@ ("V" :> "v") @@ ("W" :> "w") @@ ("X" :> "x")
  @@ ("Y" :> "y") @@ ("Z" :> "z")

UpperLetters == DOMAIN UpperToLower

\* \w of the regexp package: [0-9A-Za-z_]
WordChars == Digits \cup LowerLetters \cup UpperLetters \cup {"_"}

\* \s of the regexp package; strings.TrimSpace trims the same ASCII characters
SpaceChars == {" ", "\t", "\n", "\r", "\f"}

\* the string made of a sequence of characters
RECURSIVE Join(_)
Join(s) == IF s = <<>> THEN "" ELSE Head(s) \o Join(Tail(s))

\* strings.ToLower
ToLower(s) ==
  [i \in 1..Len(s) |-> IF s[i] \in UpperLetters THEN UpperToLower[s[i]] ELSE s[i]]

\* whether the character at position i exists and is a word character
IsWordAt(s, i) == i >= 1 /\ i <= Len(s) /\ s[i] \in WordChars

\* \b before position i (i in 1..Len(s)+1)
WordBoundary(s, i) == IsWordAt(s, i - 1) # IsWordAt(s, i)

\* [0-9a-f]{n} (case-insensitive) at positions i..i+n-1
HexRun(s, i, n) ==
  /\ i + n - 1 <= Len(s)
  /\ \A k \in i..(i + n - 1) : s[k] \in HexDigits

DashAt(s, i) == i <= Len(s) /\ s[i] = "-"

\* first alternative of uuidRegex: 8-4-4-4-12
MatchDashedUUID(s, i) ==
  /\ HexRun(s, i, 8)       /\ DashAt(s, i + 8)
  /\ HexRun(s, i + 9, 4)   /\ DashAt(s, i + 13)
  /\ HexRun(s, i + 14, 4)  /\ DashAt(s, i + 18)
  /\ HexRun(s, i + 19, 4)  /\ DashAt(s, i + 23)
  /\ HexRun(s, i + 24, 12)

\* second alternative of uuidRegex: \b[0-9a-f]{32}\b
MatchBareUUID(s, i) ==
  /\ WordBoundary(s, i)
  /\ HexRun(s, i, 32)
  /\ WordBoundary(s, i + 32)

UUIDPlaceholder == <<"[","U","U","I","D","]">>

NumPlaceholder == <<"[","N","U","M","]">>

\* uuidRegex.ReplaceAllString(s, "[UUID]"), scanning from position i
RECURSIVE ReplaceUUIDFrom(_, _)
ReplaceUUIDFrom(s, i) ==
  IF i > Len(s) THEN <<>>
  ELSE IF MatchDashedUUID(s, i) THEN UUIDPlaceholder \o ReplaceUUIDFrom(s, i + 36)
  ELSE IF MatchBareUUID(s, i) THEN UUIDPlaceholder \o ReplaceUUIDFrom(s, i + 32)
  ELSE <<s[i]>> \o ReplaceUUIDFrom(s, i + 1)

\* the position after the maximal run of digits starting at i
RECURSIVE DigitRunEnd(_, _)
DigitRunEnd(s, i) ==
  IF i <= Len(s) /\ s[i] \in Digits THEN DigitRunEnd(s, i + 1) ELSE i

\* regexp `\b\d+\b`.ReplaceAllString(s, "[NUM]"), scanning from position i
RECURSIVE ReplaceNumFrom(_, _)
ReplaceNumFrom(s, i) ==
  IF i > Len(s) THEN <<>>
  ELSE IF /\ s[i] \in Digits
          /\ WordBoundary(s, i)
          /\ WordBoundary(s, DigitRunEnd(s, i))
       THEN NumPlaceholder \o ReplaceNumFrom(s, DigitRunEnd(s, i))
       ELSE <<s[i]>> \o ReplaceNumFrom(s, i + 1)

\* the position after the maximal run of whitespace starting at i
RECURSIVE SpaceRunEnd(_, _)
SpaceRunEnd(s, i) ==
  IF i <= Len(s) /\ s[i] \in SpaceChars THEN SpaceRunEnd(s, i + 1) ELSE i

\* regexp `\s+`.ReplaceAllString(s, " "), scanning from position i
RECURSIVE CollapseSpaceFrom(_, _)
CollapseSpaceFrom(s, i) ==
  IF i > Len(s) THEN <<>>
  ELSE IF s[i] \in SpaceChars
       THEN <<" ">> \o CollapseSpaceFrom(s, SpaceRunEnd(s, i))
       ELSE <<s[i]>> \o CollapseSpaceFrom(s, i + 1)

\* strings.TrimSpace
RECURSIVE TrimSpace(_)
TrimSpace(s) ==
  IF s = <<>> THEN s
  ELSE IF Head(s) \in SpaceChars THEN TrimSpace(Tail(s))
  ELSE IF s[Len(s)] \in SpaceChars THEN TrimSpace(SubSeq(s, 1, Len(s) - 1))
  ELSE s

\* the steps of normalizeContent with DefaultNormalizationConfig
\* (ReplaceLiterals is empty), on the characters of the content
normalizeChars(content) ==
  TrimSpace(CollapseSpaceFrom(ReplaceNumFrom(ReplaceUUIDFrom(ToLower(content), 1), 1), 1))

-----------------------------------------------------------------------------
(* Normalizer / grouper (internal/normalizer/normalizer.go).               *)

\* DefaultNormalizationConfig
MinSamplesPerGroup == 3

MaxSamplesPerGroup == 5

\* the parsed records the runs draw their input from; Timestamp is in minutes
RecordPool ==
  { [Content |-> "User 42 not found",
      ServiceName |-> "svc-a", Caller |-> "h.go:1", Timestamp |-> 605]
  , [Content |-> "User 9999 not found",
      ServiceName |-> "svc-a", Caller |-> "h.go:1", Timestamp |-> 620]
  , [Content |-> "USER 42\tnot  found ",
      ServiceName |-> "svc-a", Caller |-> "h.go:1", Timestamp |-> 599]
  , [Content |-> "user42 lost",
      ServiceName |-> "svc-a", Caller |-> "h.go:1", Timestamp |-> 670]
  , [Content |-> "user9999 lost",
      ServiceName |-> "svc-a", Caller |-> "h.go:1", Timestamp |-> 700]
  , [Content |-> "a",
      ServiceName |-> "ab", Caller |-> "ab|c", Timestamp |-> 605]
  , [Content |-> "a|ab",
      ServiceName |-> "ab", Caller |-> "c", Timestamp |-> 720]
  , [Content |-> "session 550e8400-e29b-41d4-a716-446655440000 expired",
      ServiceName |-> "svc-b", Caller |-> "s.go:2", Timestamp |-> 605]
  , [Content |-> "unexpected end of JSON input at offset 17",
      ServiceName |-> "pp-slot-api", Caller |-> "j.go:3", Timestamp |-> 605]
  , [Content |-> "invalid json: wallet fail",
      ServiceName |-> "pp-slot-api", Caller |-> "w.go:9", Timestamp |-> 780]
  }

\* the characters of the strings of RecordPool, of their normalized contents,
\* of the predefined issues, of the digests and of RawPool
Chars ==
     ("User 42 not found" :>
        <<"U","s","e","r"," ","4","2"," ","n","o","t"," ","f","o","u","n","d">>)
  @@ ("svc-a" :>
        <<"s","v","c","-","a">>)
  @@ ("h.go:1" :>
        <<"h",".","g","o",":","1">>)
  @@ ("User 9999 not found" :>
        <<"U","s","e","r"," ","9","9","9","9"," ","n","o","t"," ","f","o","u","n","d">>)
  @@ ("USER 42\tnot  found " :>
        <<"U","S","E","R"," ","4","2","\t","n","o","t"," "," ","f","o","u","n","d"," ">>)
  @@ ("user42 lost" :>
        <<"u","s","e","r","4","2"," ","l","o","s","t">>)
  @@ ("user9999 lost" :>
        <<"u","s","e","r","9","9","9","9"," ","l","o","s","t">>)
  @@ ("a" :>
        <<"a">>)
  @@ ("ab" :>
        <<"a","b">>)
  @@ ("ab|c" :>
        <<"a","b","|","c">>)
  @@ ("a|ab" :>
        <<"a","|","a","b">>)
  @@ ("c" :>
        <<"c">>)
  @@ ("session 550e8400-e29b-41d4-a716-446655440000 expired" :>
        <<"s","e","s","s","i","o","n"," ","5","5","0","e","8","4","0","0","-","e","2","9","b","-","4","1","d","4","-","a","7","1","6","-","4","4","6","6","5","5","4","4","0","0","0","0"," ","e","x","p","i","r","e","d">>)
  @@ ("svc-b" :>
        <<"s","v","c","-","b">>)
  @@ ("s.go:2" :>
        <<"s",".","g","o",":","2">>)
  @@ ("unexpected end of JSON input at offset 17" :>
        <<"u","n","e","x","p","e","c","t","e","d"," ","e","n","d"," ","o","f"," ","J","S","O","N"," ","i","n","p","u","t"," ","a","t"," ","o","f","f","s","e","t"," ","1","7">>)
  @@ ("pp-slot-api" :>
        <<"p","p","-","s","l","o","t","-","a","p","i">>)
  @@ ("j.go:3" :>
        <<"j",".","g","o",":","3">>)
  @@ ("invalid json: wallet fail" :>
        <<"i","n","v","a","l","i","d"," ","j","s","o","n",":"," ","w","a","l","l","e","t"," ","f","a","i","l">>)
  @@ ("w.go:9" :>
        <<"w",".","g","o",":","9">>)
  @@ ("user [NUM] not found" :>
        <<"u","s","e","r"," ","[","N","U","M","]"," ","n","o","t"," ","f","o","u","n","d">>)
  @@ ("session [UUID] expired" :>
        <<"s","e","s","s","i","o","n"," ","[","U","U","I","D","]"," ","e","x","p","i","r","e","d">>)
  @@ ("unexpected end of json input at offset [NUM]" :>
        <<"u","n","e","x","p","e","c","t","e","d"," ","e","n","d"," ","o","f"," ","j","s","o","n"," ","i","n","p","u","t"," ","a","t"," ","o","f","f","s","e","t"," ","[","N","U","M","]">>)
  @@ ("mismatch index|index out of range" :>
        <<"m","i","s","m","a","t","c","h"," ","i","n","d","e","x","|","i","n","d","e","x"," ","o","u","t"," ","o","f"," ","r","a","n","g","e">>)
  @@ ("pp-slot-replay" :>
        <<"p","p","-","s","l","o","t","-","r","e","p","l","a","y">>)
  @@ ("unexpected end of json input|invalid json|unmarshal error" :>
        <<"u","n","e","x","p","e","c","t","e","d"," ","e","n","d"," ","o","f"," ","j","s","o","n"," ","i","n","p","u","t","|","i","n","v","a","l","i","d"," ","j","s","o","n","|","u","n","m","a","r","s","h","a","l"," ","e","r","r","o","r">>)
  @@ ("pp-slot-session" :>
        <<"p","p","-","s","l","o","t","-","s","e","s","s","i","o","n">>)
  @@ ("insufficient points|balance not enough|insufficient funds" :>
        <<"i","n","s","u","f","f","i","c","i","e","n","t"," ","p","o","i","n","t","s","|","b","a","l","a","n","c","e"," ","n","o","t"," ","e","n","o","u","g","h","|","i","n","s","u","f","f","i","c","i","e","n","t"," ","f","u","n","d","s">>)
  @@ ("empty mgckey|invalid mgckey|mgckey not found" :>
        <<"e","m","p","t","y"," ","m","g","c","k","e","y","|","i","n","v","a","l","i","d"," ","m","g","c","k","e","y","|","m","g","c","k","e","y"," ","n","o","t"," ","f","o","u","n","d">>)
  @@ ("redis message is nil|redis connection refused|redis timeout" :>
        <<"r","e","d","i","s"," ","m","e","s","s","a","g","e"," ","i","s"," ","n","i","l","|","r","e","d","i","s"," ","c","o","n","n","e","c","t","i","o","n"," ","r","e","f","u","s","e","d","|","r","e","d","i","s"," ","t","i","m","e","o","u","t">>)
  @@ ("pp-slot-index" :>
        <<"p","p","-","s","l","o","t","-","i","n","d","e","x">>)
  @@ ("player not found|account not found|no such account" :>
        <<"p","l","a","y","e","r"," ","n","o","t"," ","f","o","u","n","d","|","a","c","c","o","u","n","t"," ","n","o","t"," ","f","o","u","n","d","|","n","o"," ","s","u","c","h"," ","a","c","c","o","u","n","t">>)
  @@ ("game config does not exist|game not found|invalid game id" :>
        <<"g","a","m","e"," ","c","o","n","f","i","g"," ","d","o","e","s"," ","n","o","t"," ","e","x","i","s","t","|","g","a","m","e"," ","n","o","t"," ","f","o","u","n","d","|","i","n","v","a","l","i","d"," ","g","a","m","e"," ","i","d">>)
  @@ ("account is locked|account suspended|login blocked" :>
        <<"a","c","c","o","u","n","t"," ","i","s"," ","l","o","c","k","e","d","|","a","c","c","o","u","n","t"," ","s","u","s","p","e","n","d","e","d","|","l","o","g","i","n"," ","b","l","o","c","k","e","d">>)
  @@ ("does not support spin type|unsupported game mode|invalid configuration" :>
        <<"d","o","e","s"," ","n","o","t"," ","s","u","p","p","o","r","t"," ","s","p","i","n"," ","t","y","p","e","|","u","n","s","u","p","p","o","r","t","e","d"," ","g","a","m","e"," ","m","o","d","e","|","i","n","v","a","l","i","d"," ","c","o","n","f","i","g","u","r","a","t","i","o","n">>)
  @@ ("wallet fail|wallet error|transaction failed|insufficient balance" :>
        <<"w","a","l","l","e","t"," ","f","a","i","l","|","w","a","l","l","e","t"," ","e","r","r","o","r","|","t","r","a","n","s","a","c","t","i","o","n"," ","f","a","i","l","e","d","|","i","n","s","u","f","f","i","c","i","e","n","t"," ","b","a","l","a","n","c","e">>)
  @@ ("ff65fdaea0c3e1a94caa10930385a7226e54c96abb60bcf7d0bf9eb621223069" :>
        <<"f","f","6","5","f","d","a","e","a","0","c","3","e","1","a","9","4","c","a","a","1","0","9","3","0","3","8","5","a","7","2","2","6","e","5","4","c","9","6","a","b","b","6","0","b","c","f","7","d","0","b","f","9","e","b","6","2","1","2","2","3","0","6","9">>)
  @@ ("9cb4790be3aae5d8feb7735246c3b8b2f63c7c13db661f81583cd0ee13234090" :>
        <<"9","c","b","4","7","9","0","b","e","3","a","a","e","5","d","8","f","e","b","7","7","3","5","2","4","6","c","3","b","8","b","2","f","6","3","c","7","c","1","3","d","b","6","6","1","f","8","1","5","8","3","c","d","0","e","e","1","3","2","3","4","0","9","0">>)
  @@ ("6b67ea4aef0a32cb0390048201caeca74cbeeeac34d870da36def194ecc589da" :>
        <<"6","b","6","7","e","a","4","a","e","f","0","a","3","2","c","b","0","3","9","0","0","4","8","2","0","1","c","a","e","c","a","7","4","c","b","e","e","e","a","c","3","4","d","8","7","0","d","a","3","6","d","e","f","1","9","4","e","c","c","5","8","9","d","a">>)
  @@ ("cead758e8f456b605ef9eb4b44f728798a54639a483d6148d9363f300b9e52c4" :>
        <<"c","e","a","d","7","5","8","e","8","f","4","5","6","b","6","0","5","e","f","9","e","b","4","b","4","4","f","7","2","8","7","9","8","a","5","4","6","3","9","a","4","8","3","d","6","1","4","8","d","9","3","6","3","f","3","0","0","b","9","e","5","2","c","4">>)
  @@ ("93f7d381908d26fcf881b7cbbc8303dc6e3e357c720bab650a6267c53ae5d5c6" :>
        <<"9","3","f","7","d","3","8","1","9","0","8","d","2","6","f","c","f","8","8","1","b","7","c","b","b","c","8","3","0","3","d","c","6","e","3","e","3","5","7","c","7","2","0","b","a","b","6","5","0","a","6","2","6","7","c","5","3","a","e","5","d","5","c","6">>)
  @@ ("a1a33d873b3ea78857248941916caefa951448d7492c2001a20b4457127822fe" :>
        <<"a","1","a","3","3","d","8","7","3","b","3","e","a","7","8","8","5","7","2","4","8","9","4","1","9","1","6","c","a","e","f","a","9","5","1","4","4","8","d","7","4","9","2","c","2","0","0","1","a","2","0","b","4","4","5","7","1","2","7","8","2","2","f","e">>)
  @@ ("a06a0ae5819a2a9c5e420f2af3df8ddfa3ff079b3dd672799020c2b9fbe4a5b4" :>
        <<"a","0","6","a","0","a","e","5","8","1","9","a","2","a","9","c","5","e","4","2","0","f","2","a","f","3","d","f","8","d","d","f","a","3","f","f","0","7","9","b","3","d","d","6","7","2","7","9","9","0","2","0","c","2","b","9","f","b","e","4","a","5","b","4">>)
  @@ ("" :>
        <<>>)
  @@ ("pp-slot-api-log*" :>
        <<"p","p","-","s","l","o","t","-","a","p","i","-","l","o","g","*">>)
  @@ ("2026-01-10T11:30:32.804Z stderr F {\"@timestamp\":\"2026-01-10T11:30:32Z\",\"caller\":\"h.go:1\",\"content\":\"boom\",\"level\":\"error\"}" :>
        <<"2","0","2","6","-","0","1","-","1","0","T","1","1",":","3","0",":","3","2",".","8","0","4","Z"," ","s","t","d","e","r","r"," ","F"," ","{","\"","@","t","i","m","e","s","t","a","m","p","\"",":","\"","2","0","2","6","-","0","1","-","1","0","T","1","1",":","3","0",":","3","2","Z","\"",",","\"","c","a","l","l","e","r","\"",":","\"","h",".","g","o",":","1","\"",",","\"","c","o","n","t","e","n","t","\"",":","\"","b","o","o","m","\"",",","\"","l","e","v","e","l","\"",":","\"","e","r","r","o","r","\"","}">>)
  @@ ("{\"@timestamp\":\"2026-01-10T19:30:32.804+08:00\",\"caller\":\"h.go:1\",\"content\":\"boom\",\"level\":\"ERROR\"}" :>
        <<"{","\"","@","t","i","m","e","s","t","a","m","p","\"",":","\"","2","0","2","6","-","0","1","-","1","0","T","1","9",":","3","0",":","3","2",".","8","0","4","+","0","8",":","0","0","\"",",","\"","c","a","l","l","e","r","\"",":","\"","h",".","g","o",":","1","\"",",","\"","c","o","n","t","e","n","t","\"",":","\"","b","o","o","m","\"",",","\"","l","e","v","e","l","\"",":","\"","E","R","R","O","R","\"","}">>)
  @@ ("lc-jade-prod_PP_Slot" :>
        <<"l","c","-","j","a","d","e","-","p","r","o","d","_","P","P","_","S","l","o","t">>)
  @@ ("2026-01-10T11:30:32.804Z stderr F {\"@timestamp\":\"2026-01-10T11:30:32Z\",\"caller\":\"h.go:1\",\"content\":\"boom\",\"level\":\"warning\"}" :>
        <<"2","0","2","6","-","0","1","-","1","0","T","1","1",":","3","0",":","3","2",".","8","0","4","Z"," ","s","t","d","e","r","r"," ","F"," ","{","\"","@","t","i","m","e","s","t","a","m","p","\"",":","\"","2","0","2","6","-","0","1","-","1","0","T","1","1",":","3","0",":","3","2","Z","\"",",","\"","c","a","l","l","e","r","\"",":","\"","h",".","g","o",":","1","\"",",","\"","c","o","n","t","e","n","t","\"",":","\"","b","o","o","m","\"",",","\"","l","e","v","e","l","\"",":","\"","w","a","r","n","i","n","g","\"","}">>)
  @@ ("2026-01-10T11:30:32.804Z stderr F {\"@timestamp\":\"2026-01-10T11:30:32Z\",\"caller\":\"h.go:1\",\"content\":\"boom\",\"level\":\"trace\"}" :>
        <<"2","0","2","6","-","0","1","-","1","0","T","1","1",":","3","0",":","3","2",".","8","0","4","Z"," ","s","t","d","e","r","r"," ","F"," ","{","\"","@","t","i","m","e","s","t","a","m","p","\"",":","\"","2","0","2","6","-","0","1","-","1","0","T","1","1",":","3","0",":","3","2","Z","\"",",","\"","c","a","l","l","e","r","\"",":","\"","h",".","g","o",":","1","\"",",","\"","c","o","n","t","e","n","t","\"",":","\"","b","o","o","m","\"",",","\"","l","e","v","e","l","\"",":","\"","t","r","a","c","e","\"","}">>)
  @@ ("invalid log format" :>
        <<"i","n","v","a","l","i","d"," ","l","o","g"," ","f","o","r","m","a","t">>)
  @@ ("2026-01-10T11:30:32.804Z stderr F {\"content\":" :>
        <<"2","0","2","6","-","0","1","-","1","0","T","1","1",":","3","0",":","3","2",".","8","0","4","Z"," ","s","t","d","e","r","r"," ","F"," ","{","\"","c","o","n","t","e","n","t","\"",":">>)
  @@ ("2026-01-10T11:30:32.804Z stderr F {\"@timestamp\":\"2026-01-10T11:30:32Z\",\"caller\":\"h.go:1\",\"level\":\"error\"}" :>
        <<"2","0","2","6","-","0","1","-","1","0","T","1","1",":","3","0",":","3","2",".","8","0","4","Z"," ","s","t","d","e","r","r"," ","F"," ","{","\"","@","t","i","m","e","s","t","a","m","p","\"",":","\"","2","0","2","6","-","0","1","-","1","0","T","1","1",":","3","0",":","3","2","Z","\"",",","\"","c","a","l","l","e","r","\"",":","\"","h",".","g","o",":","1","\"",",","\"","l","e","v","e","l","\"",":","\"","e","r","r","o","r","\"","}">>)
  @@ ("2026-01-10T11:30:32.804Z stderr F {\"@timestamp\":\"yesterday\",\"caller\":\"h.go:1\",\"content\":\"boom\",\"level\":\"error\"}" :>
        <<"2","0","2","6","-","0","1","-","1","0","T","1","1",":","3","0",":","3","2",".","8","0","4","Z"," ","s","t","d","e","r","r"," ","F"," ","{","\"","@","t","i","m","e","s","t","a","m","p","\"",":","\"","y","e","s","t","e","r","d","a","y","\"",",","\"","c","a","l","l","e","r","\"",":","\"","h",".","g","o",":","1","\"",",","\"","c","o","n","t","e","n","t","\"",":","\"","b","o","o","m","\"",",","\"","l","e","v","e","l","\"",":","\"","e","r","r","o","r","\"","}">>)
  @@ ("lc-jade-prod_pp-slot-rpc-dd4bcd599-vlkp5" :>
        <<"l","c","-","j","a","d","e","-","p","r","o","d","_","p","p","-","s","l","o","t","-","r","p","c","-","d","d","4","b","c","d","5","9","9","-","v","l","k","p","5">>)
  @@ ("filebeat" :>
        <<"f","i","l","e","b","e","a","t">>)
  @@ ("Filebeat" :>
        <<"F","i","l","e","b","e","a","t">>)
  @@ ("/var/lib/docker/containers/0.log" :>
        <<"/","v","a","r","/","l","i","b","/","d","o","c","k","e","r","/","c","o","n","t","a","i","n","e","r","s","/","0",".","l","o","g">>)
  @@ ("!!" :>
        <<"!","!">>)
  @@ ("PP-Slot-Agent" :>
        <<"P","P","-","S","l","o","t","-","A","g","e","n","t">>)
  @@ ("2026-01-10T11:30:32.804Z stderr F {\\\"@timestamp\\\":\\\"2026-01-10T11:30:32Z\\\",\\\"caller\\\":\\\"h.go:1\\\",\\\"content\\\":\\\"boom\\\",\\\"level\\\":\\\"error\\\"}" :>
        <<"2","0","2","6","-","0","1","-","1","0","T","1","1",":","3","0",":","3","2",".","8","0","4","Z"," ","s","t","d","e","r","r"," ","F"," ","{","\\","\"","@","t","i","m","e","s","t","a","m","p","\\","\"",":","\\","\"","2","0","2","6","-","0","1","-","1","0","T","1","1",":","3","0",":","3","2","Z","\\","\"",",","\\","\"","c","a","l","l","e","r","\\","\"",":","\\","\"","h",".","g","o",":","1","\\","\"",",","\\","\"","c","o","n","t","e","n","t","\\","\"",":","\\","\"","b","o","o","m","\\","\"",",","\\","\"","l","e","v","e","l","\\","\"",":","\\","\"","e","r","r","o","r","\\","\"","}">>)
  @@ ("2026-01-10T11:30:32.804Z stderr F {\"@timestamp\":\"2026-01-10T11:30:32Z\",\"caller\":\"h.go:1\",\"content\":\"boom\",\"level\":\"err\"}" :>
        <<"2","0","2","6","-","0","1","-","1","0","T","1","1",":","3","0",":","3","2",".","8","0","4","Z"," ","s","t","d","e","r","r"," ","F"," ","{","\"","@","t","i","m","e","s","t","a","m","p","\"",":","\"","2","0","2","6","-","0","1","-","1","0","T","1","1",":","3","0",":","3","2","Z","\"",",","\"","c","a","l","l","e","r","\"",":","\"","h",".","g","o",":","1","\"",",","\"","c","o","n","t","e","n","t","\"",":","\"","b","o","o","m","\"",",","\"","l","e","v","e","l","\"",":","\"","e","r","r","\"","}">>)
  @@ ("2026-01-10T11:30:32.804Z stderr F {\"@timestamp\":\"2026-01-10T11:30:32Z\",\"caller\":\"h.go:1\",\"content\":\"started\",\"level\":\"info\"}" :>
        <<"2","0","2","6","-","0","1","-","1","0","T","1","1",":","3","0",":","3","2",".","8","0","4","Z"," ","s","t","d","e","r","r"," ","F"," ","{","\"","@","t","i","m","e","s","t","a","m","p","\"",":","\"","2","0","2","6","-","0","1","-","1","0","T","1","1",":","3","0",":","3","2","Z","\"",",","\"","c","a","l","l","e","r","\"",":","\"","h",".","g","o",":","1","\"",",","\"","c","o","n","t","e","n","t","\"",":","\"","s","t","a","r","t","e","d","\"",",","\"","l","e","v","e","l","\"",":","\"","i","n","f","o","\"","}">>)
  @@ ("prod_pp-slot-index" :>
        <<"p","r","o","d","_","p","p","-","s","l","o","t","-","i","n","d","e","x">>)
  @@ ("error" :>
        <<"e","r","r","o","r">>)
  @@ ("ERROR" :>
        <<"E","R","R","O","R">>)
  @@ ("warning" :>
        <<"w","a","r","n","i","n","g">>)
  @@ ("trace" :>
        <<"t","r","a","c","e">>)
  @@ ("err" :>
        <<"e","r","r">>)
  @@ ("info" :>
        <<"i","n","f","o">>)
  @@ ("warn" :>
        <<"w","a","r","n">>)
  @@ ("debug" :>
        <<"d","e","b","u","g">>)
  @@ ("svc-7" :>
        <<"s","v","c","-","7">>)
  @@ ("dfd3c585137209e6eb19159265c73fc8b90124a7e36d6224ec03026ffee14bd5" :>
        <<"d","f","d","3","c","5","8","5","1","3","7","2","0","9","e","6","e","b","1","9","1","5","9","2","6","5","c","7","3","f","c","8","b","9","0","1","2","4","a","7","e","3","6","d","6","2","2","4","e","c","0","3","0","2","6","f","f","e","e","1","4","b","d","5">>)
  @@ ("worker-2times" :>
        <<"w","o","r","k","e","r","-","2","t","i","m","e","s">>)
  @@ ("29664dea95311511da733b07a8f810fe61281e3ca8534521285741ed8ba9d85a" :>
        <<"2","9","6","6","4","d","e","a","9","5","3","1","1","5","1","1","d","a","7","3","3","b","0","7","a","8","f","8","1","0","f","e","6","1","2","8","1","e","3","c","a","8","5","3","4","5","2","1","2","8","5","7","4","1","e","d","8","b","a","9","d","8","5","a">>)
  @@ ("h.go:22482" :>
        <<"h",".","g","o",":","2","2","4","8","2">>)
  @@ ("9486f89deba8844f32f02312829c43a0a7d42e90e3d676df3867f74e3e56233f" :>
        <<"9","4","8","6","f","8","9","d","e","b","a","8","8","4","4","f","3","2","f","0","2","3","1","2","8","2","9","c","4","3","a","0","a","7","d","4","2","e","9","0","e","3","d","6","7","6","d","f","3","8","6","7","f","7","4","e","3","e","5","6","2","3","3","f">>)
  @@ ("h.go:28568" :>
        <<"h",".","g","o",":","2","8","5","6","8">>)
  @@ ("9486f89d86a3cd7757eb2ca17cd76c0869fcf867c39cd5a8209adb5732e20454" :>
        <<"9","4","8","6","f","8","9","d","8","6","a","3","c","d","7","7","5","7","e","b","2","c","a","1","7","c","d","7","6","c","0","8","6","9","f","c","f","8","6","7","c","3","9","c","d","5","a","8","2","0","9","a","d","b","5","7","3","2","e","2","0","4","5","4">>)
  @@ ("f38f8cf1a292f74d3aa6f0ec606d34f708286aa611c530a62254f70944a05151" :>
        <<"f","3","8","f","8","c","f","1","a","2","9","2","f","7","4","d","3","a","a","6","f","0","e","c","6","0","6","d","3","4","f","7","0","8","2","8","6","a","a","6","1","1","c","5","3","0","a","6","2","2","5","4","f","7","0","9","4","4","a","0","5","1","5","1">>)

\* hex(sha256(b)) of the byte strings that the records of RecordPool hash
Sha256Table ==
     ("user [NUM] not found|svc-a|h.go:1" :>
        "ff65fdaea0c3e1a94caa10930385a7226e54c96abb60bcf7d0bf9eb621223069")
  @@ ("user42 lost|svc-a|h.go:1" :>
        "9cb4790be3aae5d8feb7735246c3b8b2f63c7c13db661f81583cd0ee13234090")
  @@ ("user9999 lost|svc-a|h.go:1" :>
        "6b67ea4aef0a32cb0390048201caeca74cbeeeac34d870da36def194ecc589da")
  @@ ("a|ab|ab|c" :>
        "cead758e8f456b605ef9eb4b44f728798a54639a483d6148d9363f300b9e52c4")
  @@ ("session [UUID] expired|svc-b|s.go:2" :>
        "93f7d381908d26fcf881b7cbbc8303dc6e3e357c720bab650a6267c53ae5d5c6")
  @@ ("unexpected end of json input at offset [NUM]|pp-slot-api|j.go:3" :>
        "a1a33d873b3ea78857248941916caefa951448d7492c2001a20b4457127822fe")
  @@ ("invalid json: wallet fail|pp-slot-api|w.go:9" :>
        "a06a0ae5819a2a9c5e420f2af3df8ddfa3ff079b3dd672799020c2b9fbe4a5b4")
  @@ ("user42 lost|svc-7|h.go:1" :>
        "dfd3c585137209e6eb19159265c73fc8b90124a7e36d6224ec03026ffee14bd5")
  @@ ("invalid json: wallet fail|worker-2times|w.go:9" :>
        "29664dea95311511da733b07a8f810fe61281e3ca8534521285741ed8ba9d85a")
  @@ ("user42 lost|svc-7|h.go:22482" :>
        "9486f89deba8844f32f02312829c43a0a7d42e90e3d676df3867f74e3e56233f")
  @@ ("user42 lost|pp-slot-api|h.go:28568" :>
        "9486f89d86a3cd7757eb2ca17cd76c0869fcf867c39cd5a8209adb5732e20454")
  @@ ("user42 lost|pp-slot-api|h.go:1" :>
        "f38f8cf1a292f74d3aa6f0ec606d34f708286aa611c530a62254f70944a05151")

\* normalizeContent on a string
normalizeContent(content) == Join(normalizeChars(Chars[content]))

\* fmt.Sprintf("%x", sha256.Sum256(bytes))
Sha256Hex(bytes) == Sha256Table[bytes]

\* the byte string calculateFingerprint hashes: "%s|%s|%s"
Combined(normalizedContent, serviceName, caller) ==
  normalizedContent \o "|" \o serviceName \o "|" \o caller

calculateFingerprint(normalizedContent, serviceName, caller) ==
  Sha256Hex(Combined(normalizedContent, serviceName, caller))

DigitChar == <<"0","1","2","3","4","5","6","7","8","9">>

\* time.Time.Hour of a timestamp in minutes
Hour(ts) == (ts \div 60) % 24

\* "%02d" of a number below 100
TwoDigits(n) == <<DigitChar[(n \div 10) + 1], DigitChar[(n % 10) + 1]>>

\* the characters of fmt.Sprintf("%02d:00", hour)
HourKeyChars(hour) == TwoDigits(hour) \o <<":", "0", "0">>

\* fmt.Sprintf("%02d:00", hour)
HourKey(hour) == Join(HourKeyChars(hour))

\* IncrementKey that stores 1 instead of incrementing
IncrementKey_Overwrite(m, key) == (key :> 1) @@ m

\* m[key]++ on a map[string]int
IncrementKey(m, key) ==
  IF key \in DOMAIN m THEN [m EXCEPT ![key] = @ + 1] ELSE (key :> 1) @@ m

\* a nil *models.PeakWindow; a non-nil one is <<window>>
NilPeakWindow == <<>>

\* NewGroup that already counts the record the loop is about to count
NewGroup_CountsFirst(fingerprint, normalizedContent, log) ==
  [Fingerprint       |-> fingerprint,
   NormalizedContent |-> normalizedContent,
   ServiceName       |-> log.ServiceName,
   CallerFile        |-> log.Caller,
   TotalCount        |-> 1,
   Samples           |-> <<>>,
   TimeDistribution  |-> <<>>,
   PeakWindow        |-> NilPeakWindow]

\* the ErrorGroup created for a fingerprint that is not in groupMap yet
NewGroup(fingerprint, normalizedContent, log) ==
  [Fingerprint       |-> fingerprint,
   NormalizedContent |-> normalizedContent,
   ServiceName       |-> log.ServiceName,
   CallerFile        |-> log.Caller,
   TotalCount        |-> 0,
   Samples           |-> <<>>,
   TimeDistribution  |-> <<>>,
   PeakWindow        |-> NilPeakWindow]

\* the body of the loop of NormalizeWithConfig once the group is looked up
AddRecord(group, log) ==
  [group EXCEPT
     !.TotalCount = @ + 1,
     !.Samples = IF Len(@) < MaxSamplesPerGroup THEN Append(@, log) ELSE @,
     !.TimeDistribution = IncrementKey(@, HourKey(Hour(log.Timestamp)))]

\* one iteration of the loop of NormalizeWithConfig over logs
FoldRecord ==
  /\ npc = "loop"
  /\ idx < Len(logs)
  /\ LET log == logs[idx + 1]
         normalizedContent == normalizeContent(log.Content)
         fingerprint == calculateFingerprint(normalizedContent, log.ServiceName, log.Caller)
         group == IF fingerprint \in DOMAIN groupMap
                  THEN groupMap[fingerprint]
                  ELSE NewGroup(fingerprint, normalizedContent, log)
     IN groupMap' = (fingerprint :> AddRecord(group, log)) @@ groupMap
  /\ idx' = idx + 1
  /\ UNCHANGED <<logs, errorGroups, aggResult, analyses, npc, run, firstRun,
                 fetchVars, restVars>>

\* the orders in which the elements of a finite set can be listed
Orders(S) ==
  {f \in [1..Cardinality(S) -> S] : \A i, j \in DOMAIN f : f[i] = f[j] => i = j}

\* the rearrangements of a sequence
Rearrangements(s) ==
  {[i \in DOMAIN s |-> s[p[i]]] : p \in Orders(DOMAIN s)}

\* the results sort.Slice may leave for samples: ascending Timestamp
SortSamples(samples) ==
  {p \in Rearrangements(samples) :
     \A i \in 1..(Len(p) - 1) : ~(p[i + 1].Timestamp < p[i].Timestamp)}

\* the results sort.Slice may leave for errorGroups: descending TotalCount
SortGroups(groups) ==
  {p \in Rearrangements(groups) :
     \A i \in 1..(Len(p) - 1) : ~(p[i + 1].TotalCount > p[i].TotalCount)}

TruncateSamples_ToOne(samples) ==
  IF Len(samples) > MinSamplesPerGroup
  THEN SubSeq(samples, 1, 1)
  ELSE samples

\* "Ensure minimum samples": the truncation of the sorted samples
TruncateSamples(samples) ==
  IF Len(samples) > MinSamplesPerGroup
  THEN SubSeq(samples, 1, MinSamplesPerGroup)
  ELSE samples

\* the value of a decimal digit
DigitValue(c) == CHOOSE v \in 0..9 : DigitChar[v + 1] = c

\* the value of a decimal numeral
RECURSIVE Atoi(_)
Atoi(s) ==
  IF s = <<>> THEN 0
  ELSE 10 * Atoi(SubSeq(s, 1, Len(s) - 1)) + DigitValue(s[Len(s)])

\* time.Time{}: instants are minutes since January 1, year 1, 00:00 UTC
ZeroTime == 0

IsLeap(year) == (year % 4 = 0 /\ year % 100 # 0) \/ year % 400 = 0

DaysIn(month, year) ==
  IF month = 2 THEN (IF IsLeap(year) THEN 29 ELSE 28)
  ELSE IF month \in {4, 6, 9, 11} THEN 30 ELSE 31

DaysBeforeYear(year) ==
  365 * (year - 1) + ((year - 1) \div 4) - ((year - 1) \div 100)
    + ((year - 1) \div 400)

RECURSIVE DaysBeforeMonth(_, _)
DaysBeforeMonth(month, year) ==
  IF month = 1 THEN 0
  ELSE DaysBeforeMonth(month - 1, year) + DaysIn(month - 1, year)

\* time.Date(year, month, day, hour, minute, 0, 0, time.UTC)
Date(year, month, day, hour, minute) ==
  ((DaysBeforeYear(year) + DaysBeforeMonth(month, year) + (day - 1)) * 24 + hour)
    * 60 + minute

\* time.Parse("2006-01-02T15:00:00Z", value) on the characters of value: the
\* layout reads a 4-digit year, "-", a 2-digit month, "-", a 2-digit day, "T",
\* an hour of one or two digits and the literal text ":00:00Z"
ParsePeakHour(s) ==
  LET hourLen == IF Len(s) >= 13 /\ s[13] \in Digits THEN 2 ELSE 1
      shape   == /\ Len(s) = 18 + hourLen
                 /\ \A i \in {1, 2, 3, 4, 6, 7, 9, 10, 12} : s[i] \in Digits
                 /\ s[5] = "-" /\ s[8] = "-" /\ s[11] = "T"
                 /\ SubSeq(s, 12 + hourLen, Len(s))
                      = <<":", "0", "0", ":", "0", "0", "Z">>
      year    == Atoi(SubSeq(s, 1, 4))
      month   == Atoi(SubSeq(s, 6, 7))
      day     == Atoi(SubSeq(s, 9, 10))
      hour    == Atoi(SubSeq(s, 12, 11 + hourLen))
  IN IF /\ shape
        /\ month \in 1..12
        /\ day \in 1..DaysIn(month, year)
        /\ hour \in 0..23
     THEN [Ok |-> TRUE, Time |-> Date(year, month, day, hour, 0)]
     ELSE [Ok |-> FALSE, Time |-> ZeroTime]

\* the characters of fmt.Sprintf("%02d:%02d", hour, window)
WindowKeyChars(hour, window) == TwoDigits(hour) \o <<":">> \o TwoDigits(window)

\* fmt.Sprintf("%02d:%02d", hour, window)
WindowKey(hour, window) == Join(WindowKeyChars(hour, window))

\* the characters of the keys of TimeDistribution and of windowDistribution
KeyCharsTable ==
  [key \in {WindowKey(h, w) : h \in 0..23, w \in {0, 30}} |->
     CHOOSE c \in {WindowKeyChars(h, w) : h \in 0..23, w \in {0, 30}} :
       Join(c) = key]

KeyChars(key) == KeyCharsTable[key]

\* what a loop "for key, count := range m { if count > maxCount {...} }" can
\* leave in (key, maxCount): the iteration order of a Go map is unspecified,
\* so any key of maximal count; the zero values when no count exceeds 0
PeakEntries(m, zeroKey) ==
  LET top == {k \in DOMAIN m :
                /\ m[k] > 0
                /\ \A j \in DOMAIN m : m[j] <= m[k]}
  IN IF top = {}
     THEN {[Key |-> zeroKey, Count |-> 0]}
     ELSE {[Key |-> k, Count |-> m[k]] : k \in top}

\* a float64 that is a quotient of two integers
Quotient(num, den) == [Num |-> num, Den |-> den]

\* a > b for two such quotients of positive denominator
Greater(a, b) == a.Num * b.Den > b.Num * a.Den

\* the values calculatePeakWindow can return for a TimeDistribution
calculatePeakWindow(distribution) ==
  IF DOMAIN distribution = {} THEN {NilPeakWindow}
  ELSE {IF peak.Key = "" THEN NilPeakWindow
        ELSE LET peakTime == ParsePeakHour(KeyChars(peak.Key))
             IN IF ~peakTime.Ok THEN NilPeakWindow
                ELSE <<[Start   |-> peakTime.Time,
                        End     |-> peakTime.Time + 60,
                        Count   |-> peak.Count,
                        Density |-> Quotient(peak.Count, 60)]>> :
        peak \in PeakEntries(distribution, "")}

\* the values a group can have after the body of the map-to-slice loop
FinalizeGroup(group) ==
  {[group EXCEPT !.Samples = TruncateSamples(sorted), !.PeakWindow = peakWindow] :
     sorted \in SortSamples(group.Samples),
     peakWindow \in calculatePeakWindow(group.TimeDistribution)}

\* the slices the map-to-slice loop can build when it visits the keys in order
RECURSIVE SlicesFor(_, _)
SlicesFor(m, order) ==
  IF order = <<>> THEN {<<>>}
  ELSE {<<g>> \o rest : g \in FinalizeGroup(m[Head(order)]),
                        rest \in SlicesFor(m, Tail(order))}

\* NormalizeWithConfig after its loop: map to slice (the iteration order of a
\* Go map is unspecified), per-group finalization, sort by TotalCount, return
Finalize ==
  /\ npc = "loop"
  /\ idx = Len(logs)
  /\ \E order \in Orders(DOMAIN groupMap) :
       \E slice \in SlicesFor(groupMap, order) :
         \E sorted \in SortGroups(slice) :
           errorGroups' = sorted
  /\ npc' = "normalized"
  /\ UNCHANGED <<logs, idx, groupMap, aggResult, analyses, run, firstRun,
                 fetchVars, restVars>>

-----------------------------------------------------------------------------
(* Aggregator (LogAggregator in internal/pipeline/pipeline.go).            *)

\* fmt.Sscanf reading "%02d" at position i of s: up to two digits; Value
\* stays 0 and Next stays i when no digit is there (keys carry no sign)
ScanTwoDigits(s, i) ==
  IF i <= Len(s) /\ s[i] \in Digits
  THEN IF i + 1 <= Len(s) /\ s[i + 1] \in Digits
       THEN [Value |-> 10 * DigitValue(s[i]) + DigitValue(s[i + 1]), Next |-> i + 2]
       ELSE [Value |-> DigitValue(s[i]), Next |-> i + 1]
  ELSE [Value |-> 0, Next |-> i]

\* hour after fmt.Sscanf(hourKey, "%02d:00", &hour)
ScanHourKey(s) == ScanTwoDigits(s, 1).Value

\* (peakHour, peakMinute) after fmt.Sscanf(key, "%02d:%02d", &peakHour, &peakMinute)
ScanWindowKey(s) ==
  LET first == ScanTwoDigits(s, 1)
      colon == first.Next > 1 /\ first.Next <= Len(s) /\ s[first.Next] = ":"
  IN [Hour   |-> first.Value,
      Minute |-> IF colon THEN ScanTwoDigits(s, first.Next + 1).Value ELSE 0]

\* m[key] += n on a map of counts
AddCount(m, key, n) ==
  IF key \in DOMAIN m THEN [m EXCEPT ![key] = @ + n] ELSE (key :> n) @@ m

\* the ServiceStats entry of a group's service after the group is processed
UpdateServiceStats(stats, group) ==
  LET old == IF group.ServiceName \in DOMAIN stats
             THEN stats[group.ServiceName]
             ELSE [ServiceName       |-> group.ServiceName,
                   ErrorGroupCount   |-> 0,
                   TotalErrors       |-> 0,
                   HighPriorityCount |-> 0,
                   PeakDensity       |-> Quotient(0, 1)]
      new == [old EXCEPT
                !.ErrorGroupCount = @ + 1,
                !.TotalErrors = @ + group.TotalCount,
                !.PeakDensity =
                   IF /\ group.PeakWindow # NilPeakWindow
                      /\ Greater(group.PeakWindow[1].Density, @)
                   THEN group.PeakWindow[1].Density
                   ELSE @]
  IN (group.ServiceName :> new) @@ stats

\* result.ServiceStats after the loop over groups
RECURSIVE ServiceStatsOf(_, _)
ServiceStatsOf(groups, stats) ==
  IF groups = <<>> THEN stats
  ELSE ServiceStatsOf(Tail(groups), UpdateServiceStats(stats, Head(groups)))

\* HourlyDistribution after the inner loop over one TimeDistribution
RECURSIVE AddDistribution(_, _, _)
AddDistribution(hourly, distribution, keys) ==
  IF keys = {} THEN hourly
  ELSE LET hourKey == CHOOSE k \in keys : TRUE
           hour    == ScanHourKey(KeyChars(hourKey))
       IN AddDistribution(AddCount(hourly, hour, distribution[hourKey]),
                          distribution, keys \ {hourKey})

\* result.TimeStats.HourlyDistribution after the loop over groups
RECURSIVE HourlyDistributionOf(_, _)
HourlyDistributionOf(groups, hourly) ==
  IF groups = <<>> THEN hourly
  ELSE LET distribution == Head(groups).TimeDistribution
       IN HourlyDistributionOf(
            Tail(groups),
            AddDistribution(hourly, distribution, DOMAIN distribution))

\* totalLogs after the loop over groups
RECURSIVE TotalLogsOf(_)
TotalLogsOf(groups) ==
  IF groups = <<>> THEN 0 ELSE Head(groups).TotalCount + TotalLogsOf(Tail(groups))

\* the (PeakHour, PeakCount) calculateHourlyStats can leave in TimeStats
calculateHourlyStats(hourly) ==
  IF DOMAIN hourly = {}
  THEN {[PeakHour |-> 0, PeakCount |-> 0]}
  ELSE {[PeakHour |-> peak.Key, PeakCount |-> peak.Count] :
          peak \in PeakEntries(hourly, 0)}

\* the samples of the groups, in the order the nested loops visit them
RECURSIVE SamplesOf(_)
SamplesOf(groups) ==
  IF groups = <<>> THEN <<>> ELSE Head(groups).Samples \o SamplesOf(Tail(groups))

IsZero(t) == t = ZeroTime

\* earliest after the loops of calculateTimeRange
RECURSIVE EarliestOf(_, _)
EarliestOf(samples, earliest) ==
  IF samples = <<>> THEN earliest
  ELSE EarliestOf(Tail(samples),
                  IF IsZero(earliest) \/ Head(samples).Timestamp < earliest
                  THEN Head(samples).Timestamp ELSE earliest)

\* latest after the loops of calculateTimeRange
RECURSIVE LatestOf(_, _)
LatestOf(samples, latest) ==
  IF samples = <<>> THEN latest
  ELSE LatestOf(Tail(samples),
                IF IsZero(latest) \/ Head(samples).Timestamp > latest
                THEN Head(samples).Timestamp ELSE latest)

\* time.Time.Minute of a timestamp in minutes
Minute(ts) == ts % 60

\* windowDistribution after the loops of calculatePeakWindowFromGroups
RECURSIVE WindowDistributionOf(_, _)
WindowDistributionOf(samples, windowDistribution) ==
  IF samples = <<>> THEN windowDistribution
  ELSE LET hour   == Hour(Head(samples).Timestamp)
           minute == Minute(Head(samples).Timestamp)
           window == IF minute >= 30 THEN 30 ELSE 0
       IN WindowDistributionOf(
            Tail(samples),
            IncrementKey(windowDistribution, WindowKey(hour, window)))

\* time.Date(baseTime.Year(), baseTime.Month(), baseTime.Day(), hour, minute, ...)
DateOnDayOf(baseTime, hour, minute) ==
  (baseTime \div (24 * 60)) * (24 * 60) + hour * 60 + minute

\* the peak-window fields calculatePeakWindowFromGroups can leave in TimeStats
calculatePeakWindowFromGroups(groups, baseTime) ==
  {IF peak.Key = ""
   THEN [PeakWindowStart |-> ZeroTime, PeakWindowEnd |-> ZeroTime,
         PeakWindowCount |-> 0]
   ELSE LET scanned   == ScanWindowKey(KeyChars(peak.Key))
            peakStart == DateOnDayOf(baseTime, scanned.Hour, scanned.Minute)
        IN [PeakWindowStart |-> peakStart, PeakWindowEnd |-> peakStart + 30,
            PeakWindowCount |-> peak.Count] :
   peak \in PeakEntries(WindowDistributionOf(SamplesOf(groups), <<>>), "")}

\* the time-range fields calculateTimeRange can leave in TimeStats
calculateTimeRange(groups) ==
  IF Len(groups) = 0
  THEN {[EarliestLogTime |-> ZeroTime, LatestLogTime |-> ZeroTime,
         QueryDuration |-> 0, PeakWindowStart |-> ZeroTime,
         PeakWindowEnd |-> ZeroTime, PeakWindowCount |-> 0]}
  ELSE LET earliest == EarliestOf(SamplesOf(groups), ZeroTime)
           latest   == LatestOf(SamplesOf(groups), ZeroTime)
       IN {[EarliestLogTime |-> earliest, LatestLogTime |-> latest,
            QueryDuration   |-> latest - earliest,
            PeakWindowStart |-> peakWindow.PeakWindowStart,
            PeakWindowEnd   |-> peakWindow.PeakWindowEnd,
            PeakWindowCount |-> peakWindow.PeakWindowCount] :
           peakWindow \in calculatePeakWindowFromGroups(groups, earliest)}

\* totalDensity after the loop "Calculate average density"; the densities are
\* quotients by 60
RECURSIVE TotalDensityOf(_)
TotalDensityOf(groups) ==
  IF groups = <<>> THEN 0
  ELSE (IF Head(groups).PeakWindow # NilPeakWindow
        THEN Head(groups).PeakWindow[1].Density.Num ELSE 0)
       + TotalDensityOf(Tail(groups))

\* result.TimeStats.AverageDensity
AverageDensityOf(groups) ==
  IF Len(groups) > 0
  THEN Quotient(TotalDensityOf(groups), 60 * Len(groups))
  ELSE Quotient(0, 1)

\* the AggregationResults Aggregate can return for groups (ProcessingTime,
\* a wall-clock measurement, is left out)
AggregationResults(groups) ==
  LET hourly == HourlyDistributionOf(groups, <<>>)
  IN {[TotalErrorGroups |-> Len(groups),
       TotalLogs        |-> TotalLogsOf(groups),
       ServiceStats     |-> ServiceStatsOf(groups, <<>>),
       TimeStats        |->
         [HourlyDistribution |-> hourly,
          PeakHour           |-> hourlyStats.PeakHour,
          PeakCount          |-> hourlyStats.PeakCount,
          EarliestLogTime    |-> range.EarliestLogTime,
          LatestLogTime      |-> range.LatestLogTime,
          QueryDuration      |-> range.QueryDuration,
          PeakWindowStart    |-> range.PeakWindowStart,
          PeakWindowEnd      |-> range.PeakWindowEnd,
          PeakWindowCount    |-> range.PeakWindowCount,
          AverageDensity     |-> AverageDensityOf(groups)]] :
      hourlyStats \in calculateHourlyStats(hourly),
      range \in calculateTimeRange(groups)}

\* Step 3 of Pipeline.Run: LogAggregator.Aggregate(errorGroups)
Aggregate ==
  /\ npc = "normalized"
  /\ aggResult' \in AggregationResults(errorGroups)
  /\ npc' = "aggregated"
  /\ UNCHANGED <<logs, idx, groupMap, errorGroups, analyses, run, firstRun,
                 fetchVars, restVars>>

-----------------------------------------------------------------------------
(* Known-issue registry (internal/config/known_issues.go) and the analysis *)
(* step (createAnalysesFromErrorGroups in internal/pipeline/pipeline.go).  *)

\* the issues initializePredefinedIssues puts into the registry
PredefinedIssues ==
  { [ID |-> "ISSUE-001",
      Pattern |-> "mismatch index|index out of range",
      Services |-> <<"pp-slot-api", "pp-slot-replay">>]
  , [ID |-> "ISSUE-002",
      Pattern |-> "unexpected end of json input|invalid json|unmarshal error",
      Services |-> <<"pp-slot-api", "pp-slot-session">>]
  , [ID |-> "ISSUE-003",
      Pattern |-> "insufficient points|balance not enough|insufficient funds",
      Services |-> <<"pp-slot-api">>]
  , [ID |-> "ISSUE-004",
      Pattern |-> "empty mgckey|invalid mgckey|mgckey not found",
      Services |-> <<"pp-slot-api", "pp-slot-session">>]
  , [ID |-> "ISSUE-005",
      Pattern |-> "redis message is nil|redis connection refused|redis timeout",
      Services |-> <<"pp-slot-api", "pp-slot-index">>]
  , [ID |-> "ISSUE-006",
      Pattern |-> "player not found|account not found|no such account",
      Services |-> <<"pp-slot-api", "pp-slot-session">>]
  , [ID |-> "ISSUE-007",
      Pattern |-> "game config does not exist|game not found|invalid game id",
      Services |-> <<"pp-slot-api">>]
  , [ID |-> "ISSUE-008",
      Pattern |-> "account is locked|account suspended|login blocked",
      Services |-> <<"pp-slot-session">>]
  , [ID |-> "ISSUE-009",
      Pattern |-> "does not support spin type|unsupported game mode|invalid configuration",
      Services |-> <<"pp-slot-api">>]
  , [ID |-> "ISSUE-010",
      Pattern |-> "wallet fail|wallet error|transaction failed|insufficient balance",
      Services |-> <<"pp-slot-api">>]
  }

\* strings.Split(s, sep) for a separator of one character
RECURSIVE Split(_, _)
Split(s, sep) ==
  IF \E i \in 1..Len(s) : s[i] = sep
  THEN LET i == CHOOSE k \in 1..Len(s) :
                  s[k] = sep /\ \A j \in 1..(k - 1) : s[j] # sep
       IN <<SubSeq(s, 1, i - 1)>> \o Split(SubSeq(s, i + 1, Len(s)), sep)
  ELSE <<s>>

\* strings.Contains
Contains(s, substr) ==
  \E i \in 1..(Len(s) - Len(substr) + 1) : SubSeq(s, i, i + Len(substr) - 1) = substr

\* issue.compiledRegex of the predefined issues: the regexp is
\* "(?i)(" + alternatives joined by "|" + ")", and the alternatives of the
\* predefined patterns are made of letters and spaces only, so it is kept as
\* the set of its alternatives in lower case
compiledRegex ==
  [issue \in PredefinedIssues |->
     LET patterns == Split(Chars[issue.Pattern], "|")
     IN {ToLower(patterns[k]) : k \in DOMAIN patterns}]

\* issue.compiledRegex.MatchString(content)
MatchString(issue, content) ==
  LET lower == ToLower(Chars[content])
  IN \E alternative \in compiledRegex[issue] : Contains(lower, alternative)

\* whether the loop of MatchContentAndService returns issue when it visits it
IssueMatches(issue, content, serviceName) ==
  /\ MatchString(issue, content)
  /\ \/ Len(issue.Services) = 0
     \/ \E k \in DOMAIN issue.Services :
          \/ Contains(Chars[serviceName], Chars[issue.Services[k]])
          \/ issue.Services[k] = "*"

\* the values MatchContentAndService can return: it ranges over the map
\* r.issues (unspecified iteration order) and returns the first issue that
\* matches; <<>> is nil, <<issue>> a pointer to issue
MatchContentAndService(content, serviceName) ==
  LET matching == {issue \in PredefinedIssues :
                     IssueMatches(issue, content, serviceName)}
  IN IF matching = {} THEN {<<>>} ELSE {<<issue>> : issue \in matching}

\* the thresholds of createAnalysesFromErrorGroups
HighCount == 50

MediumCount == 10

SeverityOf_Strict(totalCount) ==
  IF totalCount > HighCount THEN "high"
  ELSE IF totalCount > MediumCount THEN "medium"
  ELSE "low"

SeverityOf(totalCount) ==
  IF totalCount >= HighCount THEN "high"
  ELSE IF totalCount >= MediumCount THEN "medium"
  ELSE "low"

\* strconv.Itoa of a natural number ("%d")
RECURSIVE Itoa(_)
Itoa(n) ==
  IF n < 10 THEN <<DigitChar[n + 1]>>
  ELSE Itoa(n \div 10) \o <<DigitChar[(n % 10) + 1]>>

SuggestionLen == 60

\* truncateString on the bytes of an ASCII string
truncateString(s, maxLen) ==
  IF Len(s) <= maxLen THEN s ELSE SubSeq(s, 1, maxLen) \o <<".", ".", ".">>

\* the format strings of createAnalysesFromErrorGroups around their verbs;
\* a character outside ASCII is written as its code point
ReasonPrefix == <<"U+932F", "U+8AA4", "U+5728", "U+670D", "U+52D9", " ">>

ReasonMiddle == <<" ", "U+4E2D", "U+767C", "U+751F", "U+4E86", " ">>

ReasonSuffix == <<" ", "U+6B21">>

InvestigatePrefix ==
  <<"U+8ABF", "U+67E5", "U+932F", "U+8AA4", "U+6A21", "U+5F0F", "U+FF1A">>

CallerPrefix ==
  <<"U+6AA2", "U+67E5", "U+4F86", "U+81EA", "U+8ABF", "U+7528", "U+8005",
    "U+7684", "U+65E5", "U+8A8C", "U+FF1A">>

CorrelateText ==
  <<"U+8207", "U+90E8", "U+7F72", "U+6216", "U+914D", "U+7F6E", "U+8B8A",
    "U+66F4", "U+76F8", "U+95DC", "U+806F">>

\* fmt.Sprintf of the Reason format with (serviceName, totalCount)
FormatReason(serviceName, totalCount) ==
  Join(ReasonPrefix \o Chars[serviceName] \o ReasonMiddle \o Itoa(totalCount)
         \o ReasonSuffix)

\* the Analysis built for group when MatchContentAndService returns matchedIssue
AnalysisOf(group, matchedIssue) ==
  [ErrorGroupID     |-> Join(SubSeq(Chars[group.Fingerprint], 1, 8)),
   IsKnown          |-> matchedIssue # <<>>,
   IssueID          |-> IF matchedIssue # <<>> THEN matchedIssue[1].ID ELSE "",
   Severity         |-> SeverityOf(group.TotalCount),
   Reason           |-> FormatReason(group.ServiceName, group.TotalCount),
   SuggestedActions |->
     << Join(InvestigatePrefix
               \o truncateString(Chars[group.NormalizedContent], SuggestionLen)),
        Join(CallerPrefix \o Chars[group.CallerFile]),
        Join(CorrelateText) >>]

\* the slices createAnalysesFromErrorGroups can return for groups
RECURSIVE createAnalysesFromErrorGroups(_)
createAnalysesFromErrorGroups(groups) ==
  IF groups = <<>> THEN {<<>>}
  ELSE LET group == Head(groups)
       IN {<<AnalysisOf(group, matchedIssue)>> \o rest :
             matchedIssue \in MatchContentAndService(group.NormalizedContent,
                                                     group.ServiceName),
             rest \in createAnalysesFromErrorGroups(Tail(groups))}

\* Step 4 of Pipeline.Run: createAnalysesFromErrorGroups(errorGroups)
Analyze ==
  /\ npc = "aggregated"
  /\ analyses' \in createAnalysesFromErrorGroups(errorGroups)
  /\ npc' = "done"
  /\ UNCHANGED <<logs, idx, groupMap, errorGroups, aggResult, run, firstRun,
                 fetchVars, restVars>>

\* the AggregationResult before Aggregate has run
NoAggregation == <<>>

\* a second run of the stages over the same input, the results of the first kept
Rerun ==
  /\ npc = "done"
  /\ run = 1
  /\ firstRun' = [ErrorGroups |-> errorGroups, Aggregation |-> aggResult,
                  Analyses |-> analyses]
  /\ run' = 2
  /\ idx' = 0
  /\ groupMap' = <<>>
  /\ errorGroups' = <<>>
  /\ aggResult' = NoAggregation
  /\ analyses' = <<>>
  /\ npc' = "loop"
  /\ UNCHANGED <<logs, fetchVars, restVars>>

\* the records the repeated runs draw their input from
RerunPool ==
  {r \in RecordPool :
     r.Content \in {"User 42 not found", "user42 lost",
                    "unexpected end of JSON input at offset 17",
                    "invalid json: wallet fail"}}

\* the state in which the stages start on one of the inputs
StartOn(inputs) ==
  /\ logs \in inputs
  /\ idx = 0
  /\ groupMap = <<>>
  /\ errorGroups = <<>>
  /\ aggResult = NoAggregation
  /\ analyses = <<>>
  /\ npc = "loop"
  /\ run = 1
  /\ firstRun = [ErrorGroups |-> <<>>, Aggregation |-> NoAggregation,
                 Analyses |-> <<>>]

InitNormalizer == StartOn(UNION {[1..n -> RecordPool] : n \in 0..MaxLogs})

InitRepeated == StartOn(UNION {[1..n -> RerunPool] : n \in 0..MaxRerunLogs})

\* the same stages run again over a rearrangement of the input, the results of
\* the first run kept
RerunPermuted ==
  /\ npc = "aggregated"
  /\ run = 1
  /\ logs' \in Rearrangements(logs)
  /\ firstRun' = [ErrorGroups |-> errorGroups, Aggregation |-> aggResult,
                  Analyses |-> analyses]
  /\ run' = 2
  /\ idx' = 0
  /\ groupMap' = <<>>
  /\ errorGroups' = <<>>
  /\ aggResult' = NoAggregation
  /\ npc' = "loop"
  /\ UNCHANGED <<analyses, fetchVars, restVars>>

-----------------------------------------------------------------------------
(* Windowed fetcher (internal/fetcher/fetcher.go) and the fetch step of    *)
(* Pipeline.Run (internal/pipeline/pipeline.go).  Instants are in ms.      *)

\* time.ParseDuration("30m")
WindowDuration == 1800000

\* "size": 500 of buildDashboardsQuery
QuerySize == 500

\* the time ranges a run is asked for: multiples of half a window
Durations == {k * (WindowDuration \div 2) : k \in 0..MaxDSteps}

\* the values time.Now() takes: on a full second and inside a second
EndTimes == {36000000, 36000500}

\* the index lists of the configuration
IndexLists == {<<"ix-a">>, <<"ix-a", "ix-b">>}

\* the documents a backend may hold; the ids are unique
DocPool ==
  { [ID |-> "d1", Index |-> "ix-a", Timestamp |-> 34200000],
    [ID |-> "d2", Index |-> "ix-a", Timestamp |-> 35400000],
    [ID |-> "d3", Index |-> "ix-a", Timestamp |-> 36000200],
    [ID |-> "d4", Index |-> "ix-b", Timestamp |-> 33000000] }

\* how a search request ends: 200 with a decodable body, client.Do error,
\* non-200 status, body that does not decode
Outcomes == {"ok", "connect", "status", "decode"}

\* NumWindows without the correction of 0 to 1
NumWindows_NoMinimum(duration) == duration \div WindowDuration

\* int(duration / windowDuration), 1 when that is 0
NumWindows(duration) ==
  IF duration \div WindowDuration = 0 THEN 1 ELSE duration \div WindowDuration

\* windowEnd := endTime.Add(-time.Duration(i) * windowDuration)
WindowEnd(end, i) == end - i * WindowDuration

\* windowStart := windowEnd.Add(-windowDuration)
WindowStart(windowEnd) == windowEnd - WindowDuration

\* t.Format(time.RFC3339): the instant to the second, the fraction dropped
FormatRFC3339(t) == t \div 1000

\* the instant that the backend reads from an RFC3339 bound
ParseRFC3339(s) == s * 1000

\* the range filter and size of buildDashboardsQuery
buildDashboardsQuery(startTime, endTime_) ==
  [Gte |-> FormatRFC3339(startTime), Lte |-> FormatRFC3339(endTime_), Size |-> QuerySize]

\* the documents of an index that satisfy the range filter (gte, lte)
Matching(docs, index, query) ==
  {d \in docs : /\ d.Index = index
                /\ d.Timestamp >= ParseRFC3339(query.Gte)
                /\ d.Timestamp <= ParseRFC3339(query.Lte)}

\* documents by descending @timestamp, at most size of them
RECURSIVE SortedHits(_, _)
SortedHits(docs, size) ==
  IF docs = {} \/ size = 0 THEN <<>>
  ELSE LET d == CHOOSE x \in docs : \A y \in docs : y.Timestamp <= x.Timestamp
       IN <<d>> \o SortedHits(docs \ {d}, size - 1)

\* rawResponse.hits.hits of the backend for one index and query
Search(docs, index, query) == SortedHits(Matching(docs, index, query), query.Size)

\* the RawLog built from one hit
RawLog(index, hit) == [Index |-> index, ID |-> hit.ID, Timestamp |-> hit.Timestamp]

\* the RawLogs fetchFromWindow appends for one index: every hit of a good
\* response, nothing when the request fails (the continue branches)
IndexLogs(outcome, index, hits) ==
  IF outcome = "ok"
  THEN [k \in 1..Len(hits) |-> RawLog(index, hits[k])]
  ELSE <<>>

\* the request fetchFromWindow sends for the j-th index, with its outcome
Request(i, index, query, outcome) ==
  [Window |-> i, Index |-> index, Gte |-> query.Gte, Lte |-> query.Lte,
   Size |-> query.Size, Outcome |-> outcome]

\* allLogs of fetchFromWindow over the indices j..Len(ixs)
RECURSIVE WindowLogs(_, _, _, _, _)
WindowLogs(docs, ixs, query, outcomes, j) ==
  IF j > Len(ixs) THEN <<>>
  ELSE IndexLogs(outcomes[j], ixs[j], Search(docs, ixs[j], query))
         \o WindowLogs(docs, ixs, query, outcomes, j + 1)

\* AppendLogs that assigns instead of appending
AppendLogs_Overwrite(all, windowLogs) == windowLogs

\* allLogs = append(allLogs, logs...)
AppendLogs(all, windowLogs) == all \o windowLogs

\* FetchWithTimeWindows up to its loop: the time range is parsed
ParseRange ==
  /\ fpc = "start"
  /\ IF ~timeRange.Valid
     THEN /\ fetchErr' = "invalid time range"
          /\ fpc' = "returned"
     ELSE /\ fetchErr' = fetchErr
          /\ fpc' = "windows"
  /\ UNCHANGED <<timeRange, endTime, indices, urlOK, backend, wi, windows,
                 requests, allLogs, runResult, normVars, restVars>>

\* one iteration of the loop of FetchWithTimeWindows, fetchFromWindow included.
\* With a URL that http.NewRequest rejects fetchFromWindow returns an error
\* before any request is sent and the window is skipped.
FetchWindow ==
  /\ fpc = "windows"
  /\ wi < NumWindows(timeRange.Duration)
  /\ LET windowEnd   == WindowEnd(endTime, wi)
         windowStart == WindowStart(windowEnd)
         query       == buildDashboardsQuery(windowStart, windowEnd)
     IN /\ windows' = Append(windows, [Start |-> windowStart, End |-> windowEnd])
        /\ IF urlOK
           THEN \E outcomes \in [1..Len(indices) -> Outcomes] :
                  /\ requests' = requests \o
                       [j \in 1..Len(indices) |->
                          Request(wi, indices[j], query, outcomes[j])]
                  /\ allLogs' = AppendLogs(allLogs,
                                  WindowLogs(backend, indices, query, outcomes, 1))
           ELSE UNCHANGED <<requests, allLogs>>
  /\ wi' = wi + 1
  /\ UNCHANGED <<timeRange, endTime, indices, urlOK, backend, fpc, fetchErr,
                 runResult, normVars, restVars>>

\* the return of FetchWithTimeWindows after the loop: allLogs, nil
FetchReturn ==
  /\ fpc = "windows"
  /\ wi >= NumWindows(timeRange.Duration)
  /\ fetchErr' = "nil"
  /\ fpc' = "returned"
  /\ UNCHANGED <<timeRange, endTime, indices, urlOK, backend, wi, windows,
                 requests, allLogs, runResult, normVars, restVars>>

\* what Pipeline.Run does with the result of FetchWithTimeWindows
RunStep(err, rawLogs) ==
  IF err # "nil" THEN "error"
  ELSE IF Len(rawLogs) = 0 THEN "empty"
  ELSE "fetched"

\* Step 0 of Pipeline.Run after the fetcher returned
RunAfterFetch ==
  /\ fpc = "returned"
  /\ runResult' = RunStep(fetchErr, allLogs)
  /\ fpc' = "done"
  /\ UNCHANGED <<timeRange, endTime, indices, urlOK, backend, wi, windows,
                 requests, allLogs, fetchErr, normVars, restVars>>

InitFetcher ==
  /\ timeRange \in {[Valid |-> TRUE, Duration |-> d] : d \in Durations}
                     \cup {[Valid |-> FALSE, Duration |-> 0]}
  /\ endTime \in EndTimes
  /\ indices \in IndexLists
  /\ urlOK \in BOOLEAN
  /\ backend \in SUBSET DocPool
  /\ fpc = "start"
  /\ wi = 0
  /\ windows = <<>>
  /\ requests = <<>>
  /\ allLogs = <<>>
  /\ fetchErr = "nil"
  /\ runResult = "none"

-----------------------------------------------------------------------------
(* Preprocessor (internal/preprocessor/processor.go and                    *)
(* internal/preprocessor/service_extractor.go) and the preprocessing step  *)
(* of Pipeline.Run.                                                        *)

\* the raw documents the runs of the preprocessor draw their input from:
\* Message is Source.Message, Original is Source.Event.Original, ServiceHint
\* is Source.Fields.ServiceName, HostName is Source.Host["name"], AgentName is
\* Source.Agent["name"] and LogFilePath is Source.Log["file"]["path"]
RawPool ==
  { [ID |-> "r1", Index |-> "pp-slot-api-log*",
      Message |-> "2026-01-10T11:30:32.804Z stderr F {\"@timestamp\":\"2026-01-10T11:30:32Z\",\"caller\":\"h.go:1\",\"content\":\"boom\",\"level\":\"error\"}",
      Original |-> "",
      ServiceHint |-> "pp-slot-api",
      HostName |-> [Kind |-> "absent", Str |-> ""],
      AgentName |-> [Kind |-> "absent", Str |-> ""],
      LogFilePath |-> [Kind |-> "absent", Str |-> ""]]
  , [ID |-> "r2", Index |-> "pp-slot-api-log*",
      Message |-> "",
      Original |-> "{\"@timestamp\":\"2026-01-10T19:30:32.804+08:00\",\"caller\":\"h.go:1\",\"content\":\"boom\",\"level\":\"ERROR\"}",
      ServiceHint |-> "lc-jade-prod_PP_Slot",
      HostName |-> [Kind |-> "absent", Str |-> ""],
      AgentName |-> [Kind |-> "absent", Str |-> ""],
      LogFilePath |-> [Kind |-> "absent", Str |-> ""]]
  , [ID |-> "r3", Index |-> "pp-slot-api-log*",
      Message |-> "2026-01-10T11:30:32.804Z stderr F {\"@timestamp\":\"2026-01-10T11:30:32Z\",\"caller\":\"h.go:1\",\"content\":\"boom\",\"level\":\"warning\"}",
      Original |-> "",
      ServiceHint |-> "pp-slot-api",
      HostName |-> [Kind |-> "absent", Str |-> ""],
      AgentName |-> [Kind |-> "absent", Str |-> ""],
      LogFilePath |-> [Kind |-> "absent", Str |-> ""]]
  , [ID |-> "r4", Index |-> "pp-slot-api-log*",
      Message |-> "2026-01-10T11:30:32.804Z stderr F {\"@timestamp\":\"2026-01-10T11:30:32Z\",\"caller\":\"h.go:1\",\"content\":\"boom\",\"level\":\"trace\"}",
      Original |-> "",
      ServiceHint |-> "pp-slot-api",
      HostName |-> [Kind |-> "absent", Str |-> ""],
      AgentName |-> [Kind |-> "absent", Str |-> ""],
      LogFilePath |-> [Kind |-> "absent", Str |-> ""]]
  , [ID |-> "r5", Index |-> "pp-slot-api-log*",
      Message |-> "invalid log format",
      Original |-> "",
      ServiceHint |-> "pp-slot-api",
      HostName |-> [Kind |-> "absent", Str |-> ""],
      AgentName |-> [Kind |-> "absent", Str |-> ""],
      LogFilePath |-> [Kind |-> "absent", Str |-> ""]]
  , [ID |-> "r6", Index |-> "pp-slot-api-log*",
      Message |-> "2026-01-10T11:30:32.804Z stderr F {\"content\":",
      Original |-> "",
      ServiceHint |-> "pp-slot-api",
      HostName |-> [Kind |-> "absent", Str |-> ""],
      AgentName |-> [Kind |-> "absent", Str |-> ""],
      LogFilePath |-> [Kind |-> "absent", Str |-> ""]]
  , [ID |-> "r7", Index |-> "pp-slot-api-log*",
      Message |-> "2026-01-10T11:30:32.804Z stderr F {\"@timestamp\":\"2026-01-10T11:30:32Z\",\"caller\":\"h.go:1\",\"level\":\"error\"}",
      Original |-> "",
      ServiceHint |-> "pp-slot-api",
      HostName |-> [Kind |-> "absent", Str |-> ""],
      AgentName |-> [Kind |-> "absent", Str |-> ""],
      LogFilePath |-> [Kind |-> "absent", Str |-> ""]]
  , [ID |-> "r8", Index |-> "pp-slot-api-log*",
      Message |-> "2026-01-10T11:30:32.804Z stderr F {\"@timestamp\":\"yesterday\",\"caller\":\"h.go:1\",\"content\":\"boom\",\"level\":\"error\"}",
      Original |-> "",
      ServiceHint |-> "pp-slot-api",
      HostName |-> [Kind |-> "absent", Str |-> ""],
      AgentName |-> [Kind |-> "absent", Str |-> ""],
      LogFilePath |-> [Kind |-> "absent", Str |-> ""]]
  , [ID |-> "r9", Index |-> "pp-slot-api-log*",
      Message |-> "",
      Original |-> "",
      ServiceHint |-> "pp-slot-api",
      HostName |-> [Kind |-> "absent", Str |-> ""],
      AgentName |-> [Kind |-> "absent", Str |-> ""],
      LogFilePath |-> [Kind |-> "absent", Str |-> ""]]
  , [ID |-> "r10", Index |-> "pp-slot-api-log*",
      Message |-> "2026-01-10T11:30:32.804Z stderr F {\"@timestamp\":\"2026-01-10T11:30:32Z\",\"caller\":\"h.go:1\",\"content\":\"boom\",\"level\":\"error\"}",
      Original |-> "",
      ServiceHint |-> "",
      HostName |-> [Kind |-> "string", Str |-> "lc-jade-prod_pp-slot-rpc-dd4bcd599-vlkp5"],
      AgentName |-> [Kind |-> "absent", Str |-> ""],
      LogFilePath |-> [Kind |-> "absent", Str |-> ""]]
  , [ID |-> "r11", Index |-> "pp-slot-api-log*",
      Message |-> "2026-01-10T11:30:32.804Z stderr F {\"@timestamp\":\"2026-01-10T11:30:32Z\",\"caller\":\"h.go:1\",\"content\":\"boom\",\"level\":\"error\"}",
      Original |-> "",
      ServiceHint |-> "",
      HostName |-> [Kind |-> "absent", Str |-> ""],
      AgentName |-> [Kind |-> "absent", Str |-> ""],
      LogFilePath |-> [Kind |-> "absent", Str |-> ""]]
  , [ID |-> "r12", Index |-> "pp-slot-api-log*",
      Message |-> "2026-01-10T11:30:32.804Z stderr F {\"@timestamp\":\"2026-01-10T11:30:32Z\",\"caller\":\"h.go:1\",\"content\":\"boom\",\"level\":\"error\"}",
      Original |-> "",
      ServiceHint |-> "",
      HostName |-> [Kind |-> "number", Str |-> ""],
      AgentName |-> [Kind |-> "absent", Str |-> ""],
      LogFilePath |-> [Kind |-> "absent", Str |-> ""]]
  , [ID |-> "r13", Index |-> "pp-slot-api-log*",
      Message |-> "2026-01-10T11:30:32.804Z stderr F {\"@timestamp\":\"2026-01-10T11:30:32Z\",\"caller\":\"h.go:1\",\"content\":\"boom\",\"level\":\"error\"}",
      Original |-> "",
      ServiceHint |-> "",
      HostName |-> [Kind |-> "string", Str |-> "filebeat"],
      AgentName |-> [Kind |-> "string", Str |-> "Filebeat"],
      LogFilePath |-> [Kind |-> "string", Str |-> "/var/lib/docker/containers/0.log"]]
  , [ID |-> "r14", Index |-> "",
      Message |-> "2026-01-10T11:30:32.804Z stderr F {\"@timestamp\":\"2026-01-10T11:30:32Z\",\"caller\":\"h.go:1\",\"content\":\"boom\",\"level\":\"error\"}",
      Original |-> "",
      ServiceHint |-> "",
      HostName |-> [Kind |-> "string", Str |-> "!!"],
      AgentName |-> [Kind |-> "absent", Str |-> ""],
      LogFilePath |-> [Kind |-> "absent", Str |-> ""]]
  , [ID |-> "r15", Index |-> "pp-slot-api-log*",
      Message |-> "2026-01-10T11:30:32.804Z stderr F {\"@timestamp\":\"2026-01-10T11:30:32Z\",\"caller\":\"h.go:1\",\"content\":\"boom\",\"level\":\"error\"}",
      Original |-> "",
      ServiceHint |-> "",
      HostName |-> [Kind |-> "string", Str |-> "!!"],
      AgentName |-> [Kind |-> "absent", Str |-> ""],
      LogFilePath |-> [Kind |-> "absent", Str |-> ""]]
  , [ID |-> "r16", Index |-> "pp-slot-api-log*",
      Message |-> "2026-01-10T11:30:32.804Z stderr F {\"@timestamp\":\"2026-01-10T11:30:32Z\",\"caller\":\"h.go:1\",\"content\":\"boom\",\"level\":\"error\"}",
      Original |-> "",
      ServiceHint |-> "",
      HostName |-> [Kind |-> "string", Str |-> "filebeat"],
      AgentName |-> [Kind |-> "string", Str |-> "PP-Slot-Agent"],
      LogFilePath |-> [Kind |-> "absent", Str |-> ""]]
  , [ID |-> "r17", Index |-> "pp-slot-api-log*",
      Message |-> "2026-01-10T11:30:32.804Z stderr F {\\\"@timestamp\\\":\\\"2026-01-10T11:30:32Z\\\",\\\"caller\\\":\\\"h.go:1\\\",\\\"content\\\":\\\"boom\\\",\\\"level\\\":\\\"error\\\"}",
      Original |-> "",
      ServiceHint |-> "pp-slot-api",
      HostName |-> [Kind |-> "absent", Str |-> ""],
      AgentName |-> [Kind |-> "absent", Str |-> ""],
      LogFilePath |-> [Kind |-> "absent", Str |-> ""]]
  , [ID |-> "r18", Index |-> "pp-slot-api-log*",
      Message |-> "2026-01-10T11:30:32.804Z stderr F {\"@timestamp\":\"2026-01-10T11:30:32Z\",\"caller\":\"h.go:1\",\"content\":\"boom\",\"level\":\"err\"}",
      Original |-> "",
      ServiceHint |-> "pp-slot-api",
      HostName |-> [Kind |-> "absent", Str |-> ""],
      AgentName |-> [Kind |-> "absent", Str |-> ""],
      LogFilePath |-> [Kind |-> "absent", Str |-> ""]]
  , [ID |-> "r19", Index |-> "pp-slot-api-log*",
      Message |-> "2026-01-10T11:30:32.804Z stderr F {\"@timestamp\":\"2026-01-10T11:30:32Z\",\"caller\":\"h.go:1\",\"content\":\"started\",\"level\":\"info\"}",
      Original |-> "",
      ServiceHint |-> "prod_pp-slot-index",
      HostName |-> [Kind |-> "absent", Str |-> ""],
      AgentName |-> [Kind |-> "absent", Str |-> ""],
      LogFilePath |-> [Kind |-> "absent", Str |-> ""]]
  }

\* whether the characters of s at positions i.. are those of t
HasAt(s, i, t) ==
  /\ i >= 1
  /\ i + Len(t) - 1 <= Len(s)
  /\ SubSeq(s, i, i + Len(t) - 1) = t

\* strings.HasPrefix
HasPrefix(s, prefix) == HasAt(s, 1, prefix)

\* strings.HasSuffix
HasSuffix(s, suffix) == Len(suffix) <= Len(s) /\ HasAt(s, Len(s) - Len(suffix) + 1, suffix)

\* whether s has the shape of t at positions i.., "d" of t standing for \d
\* and every other character for itself
ShapeAt(s, i, t) ==
  /\ i + Len(t) - 1 <= Len(s)
  /\ \A k \in 1..Len(t) :
       IF t[k] = "d" THEN s[i + k - 1] \in Digits ELSE s[i + k - 1] = t[k]

\* the part of wrapperRegex before the fraction: ^\d{4}-\d{2}-\d{2}T\d{2}:\d{2}:\d{2}\.
WrapperHead ==
  <<"d","d","d","d","-","d","d","-","d","d","T","d","d",":","d","d",":","d","d",".">>

\* wrapperRegex.FindStringSubmatch(message): Ok when the message matches
\* ^\d{4}-\d{2}-\d{2}T\d{2}:\d{2}:\d{2}\.\d+Z\s+stderr\s+F\s+(.*)$ and then
\* the text of group 1 ("." does not match a line feed)
FindWrapper(s) ==
  LET fracEnd   == DigitRunEnd(s, Len(WrapperHead) + 1)
      afterZ    == fracEnd + 1
      stream    == SpaceRunEnd(s, afterZ)
      afterStr  == stream + 6
      flag      == SpaceRunEnd(s, afterStr)
      afterFlag == flag + 1
      inner     == SpaceRunEnd(s, afterFlag)
      ok == /\ ShapeAt(s, 1, WrapperHead)
            /\ fracEnd > Len(WrapperHead) + 1
            /\ HasAt(s, fracEnd, <<"Z">>)
            /\ stream > afterZ
            /\ HasAt(s, stream, <<"s","t","d","e","r","r">>)
            /\ flag > afterStr
            /\ HasAt(s, flag, <<"F">>)
            /\ inner > afterFlag
            /\ \A k \in inner..Len(s) : s[k] # "\n"
  IN IF ok THEN [Ok |-> TRUE, Group |-> SubSeq(s, inner, Len(s))]
     ELSE [Ok |-> FALSE, Group |-> <<>>]

\* removeWrapper: the inner text, or an error
removeWrapper(message) ==
  LET matches == FindWrapper(message)
  IN IF matches.Ok THEN [Err |-> FALSE, Inner |-> matches.Group]
     ELSE IF HasPrefix(TrimSpace(message), <<"{">>)
          THEN [Err |-> FALSE, Inner |-> message]
          ELSE [Err |-> TRUE, Inner |-> <<>>]

\* strings.ReplaceAll(s, `\"`, `"`) on the positions lo..hi of s: a backslash
\* that a quote follows is dropped (two matches never overlap); the range
\* is halved to keep the evaluation shallow
RECURSIVE UnescapeQuotes(_, _, _)
UnescapeQuotes(s, lo, hi) ==
  IF lo > hi THEN <<>>
  ELSE IF lo = hi
       THEN (IF HasAt(s, lo, <<"\\", "\"">>) THEN <<>> ELSE <<s[lo]>>)
       ELSE UnescapeQuotes(s, lo, (lo + hi) \div 2)
              \o UnescapeQuotes(s, (lo + hi) \div 2 + 1, hi)

\* the position of the first quote at or after i, Len(s) + 1 if there is none
RECURSIVE QuoteFrom(_, _)
QuoteFrom(s, i) ==
  IF i > Len(s) \/ s[i] = "\"" THEN i ELSE QuoteFrom(s, i + 1)

\* a JSON string without escapes at position i: its text and the position
\* after its closing quote
ScanString(s, i) ==
  LET close == QuoteFrom(s, i + 1)
  IN IF HasAt(s, i, <<"\"">>) /\ close <= Len(s)
        /\ \A k \in (i + 1)..(close - 1) : s[k] # "\\"
     THEN [Ok |-> TRUE, Text |-> SubSeq(s, i + 1, close - 1), Next |-> close + 1]
     ELSE [Ok |-> FALSE, Text |-> <<>>, Next |-> i]

\* the members "key":"value" of a JSON object from position i on, as a
\* sequence of <<key, value>>, up to the closing brace that ends the text
RECURSIVE ScanMembers(_, _)
ScanMembers(s, i) ==
  LET key   == ScanString(s, i)
      value == ScanString(s, key.Next + 1)
  IN IF key.Ok /\ HasAt(s, key.Next, <<":">>) /\ value.Ok
     THEN IF HasAt(s, value.Next, <<"}">>) /\ value.Next = Len(s)
          THEN [Ok |-> TRUE, Members |-> << <<key.Text, value.Text>> >>]
          ELSE IF HasAt(s, value.Next, <<",">>)
               THEN LET rest == ScanMembers(s, value.Next + 1)
                    IN [Ok |-> rest.Ok,
                        Members |-> << <<key.Text, value.Text>> >> \o rest.Members]
               ELSE [Ok |-> FALSE, Members |-> <<>>]
     ELSE [Ok |-> FALSE, Members |-> <<>>]

\* json.Unmarshal on the objects of the pools: an object whose members are
\* strings without escapes and without white space between the tokens; any
\* other text of the pools is not JSON
ParseObject(s) ==
  IF s = <<"{", "}">> THEN [Ok |-> TRUE, Members |-> <<>>]
  ELSE IF HasPrefix(s, <<"{">>) THEN ScanMembers(s, 2)
  ELSE [Ok |-> FALSE, Members |-> <<>>]

\* the value json.Unmarshal stores for a field: the last member whose key
\* equals the name, letter case ignored; absent when there is none
FieldOf(members, name) ==
  LET hits == {k \in DOMAIN members : ToLower(members[k][1]) = ToLower(name)}
  IN IF hits = {} THEN [Present |-> FALSE, Text |-> <<>>]
     ELSE [Present |-> TRUE,
           Text |-> members[CHOOSE k \in hits : \A j \in hits : j <= k][2]]

\* time.Time.UnmarshalJSON (RFC 3339) on the characters of a JSON string:
\* date "T" time, an optional fraction, then "Z" or an offset; the instant in
\* minutes since the zero time, seconds dropped
ParseTimestamp(s) ==
  LET fracEnd == IF HasAt(s, 20, <<".">>) THEN DigitRunEnd(s, 21) ELSE 20
      year    == Atoi(SubSeq(s, 1, 4))
      month   == Atoi(SubSeq(s, 6, 7))
      day     == Atoi(SubSeq(s, 9, 10))
      hour    == Atoi(SubSeq(s, 12, 13))
      minute  == Atoi(SubSeq(s, 15, 16))
      second  == Atoi(SubSeq(s, 18, 19))
      utc     == HasAt(s, fracEnd, <<"Z">>) /\ fracEnd = Len(s)
      east    == HasAt(s, fracEnd, <<"+">>)
      zone    == /\ fracEnd + 5 = Len(s)
                 /\ s[fracEnd] \in {"+", "-"}
                 /\ ShapeAt(s, fracEnd + 1, <<"d","d",":","d","d">>)
      offset  == IF utc THEN 0
                 ELSE (IF east THEN 1 ELSE 0 - 1)
                        * (Atoi(SubSeq(s, fracEnd + 1, fracEnd + 2)) * 60
                             + Atoi(SubSeq(s, fracEnd + 4, fracEnd + 5)))
      ok == /\ ShapeAt(s, 1, <<"d","d","d","d","-","d","d","-","d","d","T",
                                "d","d",":","d","d",":","d","d">>)
            /\ (HasAt(s, 20, <<".">>) => fracEnd > 21)
            /\ (utc \/ zone)
            /\ month \in 1..12
            /\ day \in 1..DaysIn(month, year)
            /\ hour \in 0..23 /\ minute \in 0..59 /\ second \in 0..59
            /\ (zone => /\ Atoi(SubSeq(s, fracEnd + 1, fracEnd + 2)) \in 0..23
                        /\ Atoi(SubSeq(s, fracEnd + 4, fracEnd + 5)) \in 0..59)
  IN IF ok THEN [Ok |-> TRUE, Time |-> Date(year, month, day, hour, minute) - offset]
     ELSE [Ok |-> FALSE, Time |-> ZeroTime]

\* parseInnerJSON: the InnerLogData, or an error
parseInnerJSON(jsonStr) ==
  LET cleanJSON == UnescapeQuotes(jsonStr, 1, Len(jsonStr))
      object    == ParseObject(cleanJSON)
      stamp     == FieldOf(object.Members, <<"@","t","i","m","e","s","t","a","m","p">>)
      parsed    == ParseTimestamp(stamp.Text)
      Text(name) == FieldOf(object.Members, name).Text
  IN IF ~object.Ok \/ (stamp.Present /\ ~parsed.Ok)
     THEN [Err |-> TRUE, Timestamp |-> ZeroTime, Caller |-> <<>>, Content |-> <<>>,
           Level |-> <<>>, Span |-> <<>>, Trace |-> <<>>]
     ELSE [Err       |-> FALSE,
           Timestamp |-> IF stamp.Present THEN parsed.Time ELSE ZeroTime,
           Caller    |-> Text(<<"c","a","l","l","e","r">>),
           Content   |-> Text(<<"c","o","n","t","e","n","t">>),
           Level     |-> Text(<<"l","e","v","e","l">>),
           Span      |-> Text(<<"s","p","a","n">>),
           Trace     |-> Text(<<"t","r","a","c","e">>)]

\* [a-zA-Z0-9] of the service patterns
AlnumChars == Digits \cup LowerLetters \cup UpperLetters

\* [a-zA-Z0-9-_] of the service patterns
ServiceChars == AlnumChars \cup {"-", "_"}

\* [a-z0-9]
LowerAlnumChars == Digits \cup LowerLetters

\* [a-f0-9]
LowerHexChars == Digits \cup {"a", "b", "c", "d", "e", "f"}

\* the position after the maximal run of characters of class starting at i
RECURSIVE RunEnd(_, _, _)
RunEnd(s, i, class) ==
  IF i <= Len(s) /\ s[i] \in class THEN RunEnd(s, i + 1, class) ELSE i

\* the first position of the maximal run of characters of class ending at i
RECURSIVE RunStart(_, _, _)
RunStart(s, i, class) ==
  IF i >= 1 /\ s[i] \in class THEN RunStart(s, i - 1, class) ELSE i + 1

NoMatch == [Ok |-> FALSE, Group |-> <<>>]

\* `([a-zA-Z0-9-_]+)(?:-[a-f0-9]{8,10}-[a-z0-9]{5})?$`: the leftmost match is
\* the longest suffix made of [a-zA-Z0-9-_], and the greedy group 1 takes
\* all of it
ContainerPattern(s) ==
  LET start == RunStart(s, Len(s), ServiceChars)
  IN IF start <= Len(s) THEN [Ok |-> TRUE, Group |-> SubSeq(s, start, Len(s))]
     ELSE NoMatch

EnvPrefix == <<"l","c","-","j","a","d","e","-","p","r","o","d","_">>

\* `^(?:lc-jade-prod_)?([a-zA-Z0-9-_]+)`
PrefixPattern(s) ==
  LET from == IF HasPrefix(s, EnvPrefix) /\ RunEnd(s, Len(EnvPrefix) + 1, ServiceChars)
                                              > Len(EnvPrefix) + 1
              THEN Len(EnvPrefix) + 1 ELSE 1
      to   == RunEnd(s, from, ServiceChars)
  IN IF to > from THEN [Ok |-> TRUE, Group |-> SubSeq(s, from, to - 1)] ELSE NoMatch

\* `^([a-zA-Z0-9-]+)-[a-f0-9]+-[a-z0-9]+$`: the last two hyphens delimit the
\* two trailing parts, which hold no hyphen
PodPattern(s) ==
  LET tail == RunStart(s, Len(s), LowerAlnumChars)
      hash == RunStart(s, tail - 2, LowerHexChars)
  IN IF /\ tail <= Len(s)
        /\ tail - 1 >= 1 /\ s[tail - 1] = "-"
        /\ hash <= tail - 2
        /\ hash - 1 >= 1 /\ s[hash - 1] = "-"
        /\ hash - 2 >= 1
        /\ \A k \in 1..(hash - 2) : s[k] \in AlnumChars \cup {"-"}
     THEN [Ok |-> TRUE, Group |-> SubSeq(s, 1, hash - 2)]
     ELSE NoMatch

\* `^([a-zA-Z0-9][a-zA-Z0-9-_]*[a-zA-Z0-9])$`
GenericPattern(s) ==
  IF /\ Len(s) >= 2
     /\ s[1] \in AlnumChars /\ s[Len(s)] \in AlnumChars
     /\ \A k \in 1..Len(s) : s[k] \in ServiceChars
  THEN [Ok |-> TRUE, Group |-> s]
  ELSE NoMatch

\* FindStringSubmatch of the patterns of NewServiceExtractor, in order
servicePatterns(s) ==
  <<ContainerPattern(s), PrefixPattern(s), PodPattern(s), GenericPattern(s)>>

MinServiceLen == 2

MaxServiceLen == 100

InvalidNames ==
  { <<"f","i","l","e","b","e","a","t">>, <<"l","o","g","s","t","a","s","h">>,
    <<"f","l","u","e","n","t","d">>, <<"u","n","k","n","o","w","n">>,
    <<"d","e","f","a","u","l","t">>, <<"s","y","s","t","e","m">>,
    <<"k","e","r","n","e","l">> }

isValidServiceName(serviceName) ==
  /\ Len(serviceName) >= MinServiceLen
  /\ Len(serviceName) <= MaxServiceLen
  /\ serviceName[1] \in LowerAlnumChars
  /\ serviceName[Len(serviceName)] \in LowerAlnumChars
  /\ serviceName \notin InvalidNames

\* the characters of s that are in class, in order
RECURSIVE Keep(_, _)
Keep(s, class) ==
  IF s = <<>> THEN <<>>
  ELSE (IF Head(s) \in class THEN <<Head(s)>> ELSE <<>>) \o Keep(Tail(s), class)

\* strings.Trim(s, "-")
RECURSIVE TrimHyphens(_)
TrimHyphens(s) ==
  IF s = <<>> THEN s
  ELSE IF Head(s) = "-" THEN TrimHyphens(Tail(s))
  ELSE IF s[Len(s)] = "-" THEN TrimHyphens(SubSeq(s, 1, Len(s) - 1))
  ELSE s

\* the loop replacing "--" by "-" until none is left: every run of hyphens
\* becomes one hyphen
RECURSIVE CollapseHyphens(_)
CollapseHyphens(s) ==
  IF Len(s) < 2 THEN s
  ELSE IF s[1] = "-" /\ s[2] = "-" THEN CollapseHyphens(Tail(s))
  ELSE <<Head(s)>> \o CollapseHyphens(Tail(s))

cleanServiceName(serviceName) ==
  LET lower   == ToLower(serviceName)
      hyphens == [i \in 1..Len(lower) |-> IF lower[i] = "_" THEN "-" ELSE lower[i]]
  IN CollapseHyphens(TrimHyphens(Keep(hyphens, LowerAlnumChars \cup {"-"})))

\* the prefixes of normalizeServiceName, in order
ServicePrefixes ==
  << <<"l","c","-","j","a","d","e","-","p","r","o","d","_">>,
     <<"l","c","-","j","a","d","e","-","s","t","a","g","i","n","g","_">>,
     <<"l","c","-","j","a","d","e","-","d","e","v","_">>,
     <<"p","r","o","d","_">>,
     <<"s","t","a","g","i","n","g","_">>,
     <<"d","e","v","_">> >>

normalizeServiceName(serviceName) ==
  LET hits == {k \in DOMAIN ServicePrefixes : HasPrefix(serviceName, ServicePrefixes[k])}
      stripped == IF hits = {} THEN serviceName
                  ELSE LET k == CHOOSE k \in hits : \A j \in hits : k <= j
                       IN SubSeq(serviceName, Len(ServicePrefixes[k]) + 1,
                                 Len(serviceName))
  IN cleanServiceName(stripped)

\* extractFromString: the service name found in input, <<>> for ""
extractFromString(input) ==
  IF input = <<>> THEN <<>>
  ELSE LET matches == servicePatterns(input)
           hits == {k \in DOMAIN matches :
                      matches[k].Ok /\ isValidServiceName(matches[k].Group)}
           cleaned == cleanServiceName(input)
       IN IF hits # {}
          THEN matches[CHOOSE k \in hits : \A j \in hits : k <= j].Group
          ELSE IF isValidServiceName(cleaned) THEN cleaned ELSE <<>>

\* the components of extractFromFilePath that are skipped
SkippedParts ==
  { <<>>, <<"v","a","r">>, <<"l","i","b">>, <<"d","o","c","k","e","r">>,
    <<"c","o","n","t","a","i","n","e","r","s">> }

\* the first service name the loop of extractFromFilePath finds in parts
RECURSIVE FirstFromParts(_)
FirstFromParts(parts) ==
  IF parts = <<>> THEN <<>>
  ELSE IF Head(parts) \notin SkippedParts /\ extractFromString(Head(parts)) # <<>>
       THEN extractFromString(Head(parts))
       ELSE FirstFromParts(Tail(parts))

extractFromFilePath(filePath) == FirstFromParts(Split(filePath, "/"))

\* the first service name the loop "Try each source" finds in sources
RECURSIVE FirstFromSources(_)
FirstFromSources(sources) ==
  IF sources = <<>> THEN <<>>
  ELSE IF Head(sources) # <<>> /\ extractFromString(Head(sources)) # <<>>
       THEN extractFromString(Head(sources))
       ELSE FirstFromSources(Tail(sources))

\* a value of a map[string]interface{} read by a key: Kind is "absent" when
\* the map is nil or has no such key, "string" when the value is a string
\* (Str), and the name of the other type otherwise
IsString(value) == value.Kind = "string"

\* ExtractServiceName: Outcome is "ok" (Name), "error", or "panic" when the
\* unchecked type assertion rawLog.Source.Host["name"].(string) fails
ExtractServiceName(rawLog) ==
  IF rawLog.ServiceHint # ""
  THEN [Outcome |-> "ok", Name |-> normalizeServiceName(Chars[rawLog.ServiceHint])]
  ELSE IF ~IsString(rawLog.HostName)
  THEN [Outcome |-> "panic", Name |-> <<>>]
  ELSE LET host    == Chars[rawLog.HostName.Str]
           sources == <<host, host>>
                        \o (IF IsString(rawLog.AgentName)
                            THEN <<Chars[rawLog.AgentName.Str]>> ELSE <<>>)
           fromPath == IF IsString(rawLog.LogFilePath)
                       THEN extractFromFilePath(Chars[rawLog.LogFilePath.Str])
                       ELSE <<>>
           fromSources == FirstFromSources(sources)
       IN IF fromPath # <<>>
          THEN [Outcome |-> "ok", Name |-> normalizeServiceName(fromPath)]
          ELSE IF fromSources # <<>>
          THEN [Outcome |-> "ok", Name |-> normalizeServiceName(fromSources)]
          ELSE [Outcome |-> "error", Name |-> <<>>]

\* strings.TrimSuffix
TrimSuffix(s, suffix) ==
  IF HasSuffix(s, suffix) THEN SubSeq(s, 1, Len(s) - Len(suffix)) ELSE s

\* extractServiceFromIndex
extractServiceFromIndex(indexName) ==
  TrimSuffix(TrimSuffix(TrimSuffix(TrimSuffix(indexName, <<"*">>),
                                   <<"-","l","o","g">>),
                        <<"-","p","r","o","d">>),
             <<"-","s","t","a","g","i","n","g">>)

\* the levels validateParsedLog accepts
validLevels == {"error", "warn", "info", "debug"}

\* validateParsedLog: "nil" or the error
validateParsedLog(log) ==
  IF log.Timestamp = ZeroTime THEN "timestamp is required"
  ELSE IF log.Content = "" THEN "content is required"
  ELSE IF log.Level = "" THEN "level is required"
  ELSE IF log.ServiceName = "" THEN "service name is required"
  ELSE IF Join(ToLower(Chars[log.Level])) \notin validLevels THEN "invalid log level"
  ELSE "nil"

NoParsedLog ==
  [Timestamp |-> ZeroTime, Caller |-> "", Content |-> "", Level |-> "", Span |-> "",
   Trace |-> "", ServiceName |-> ""]

\* the error return of processRawLog
Failed(err) == [Outcome |-> "error", Err |-> err, Log |-> NoParsedLog]

\* processRawLog from "Validate required fields" on
processBuilt(parsedLog, verdict) ==
  IF verdict # "nil" THEN Failed(verdict)
  ELSE [Outcome |-> "ok", Err |-> "nil", Log |-> parsedLog]

\* processRawLog from "Create parsed log" on
processNamed(innerLog, serviceName) ==
  LET parsedLog == [Timestamp   |-> innerLog.Timestamp,
                    Caller      |-> Join(innerLog.Caller),
                    Content     |-> Join(innerLog.Content),
                    Level       |-> Join(innerLog.Level),
                    Span        |-> Join(innerLog.Span),
                    Trace       |-> Join(innerLog.Trace),
                    ServiceName |-> serviceName]
  IN processBuilt(parsedLog, validateParsedLog(parsedLog))

\* processRawLog from the result of ExtractServiceName on: the fallback reads
\* Fields.ServiceName (rawLog.ServiceHint), then the index name
processExtracted(rawLog, innerLog, extracted) ==
  IF extracted.Outcome = "panic"
  THEN [Outcome |-> "panic", Err |-> "interface conversion", Log |-> NoParsedLog]
  ELSE IF extracted.Outcome = "ok" THEN processNamed(innerLog, Join(extracted.Name))
  ELSE IF rawLog.ServiceHint # "" THEN processNamed(innerLog, rawLog.ServiceHint)
  ELSE IF extractServiceFromIndex(Chars[rawLog.Index]) = <<>>
       THEN Failed("unable to extract service name from log")
  ELSE processNamed(innerLog, Join(extractServiceFromIndex(Chars[rawLog.Index])))

\* processRawLog from the result of parseInnerJSON on
processInner(rawLog, innerLog) ==
  IF innerLog.Err THEN Failed("failed to parse inner JSON")
  ELSE processExtracted(rawLog, innerLog, ExtractServiceName(rawLog))

\* processRawLog from the result of removeWrapper on
processUnwrapped(rawLog, unwrapped) ==
  IF unwrapped.Err THEN Failed("failed to remove wrapper")
  ELSE processInner(rawLog, parseInnerJSON(unwrapped.Inner))

\* processRawLog: Outcome is "ok" (Log), "error" (Err) or "panic"
processRawLog(rawLog) ==
  IF rawLog.Message # ""
  THEN processUnwrapped(rawLog, removeWrapper(Chars[rawLog.Message]))
  ELSE IF rawLog.Original # ""
  THEN processUnwrapped(rawLog, removeWrapper(Chars[rawLog.Original]))
  ELSE Failed("no message content found in raw log")

\* the loop body of Process after processRawLog returned result (or
\* panicked): the record is appended to parsedLogs, or its error to
\* processingErrors; a panic of ExtractServiceName unwinds Process and
\* Pipeline.Run, which do not recover
HandleResult(result) ==
  CASE result.Outcome = "ok" ->
         /\ parsedLogs' = Append(parsedLogs, result.Log)
         /\ pi' = pi + 1
         /\ UNCHANGED <<processingErrors, ppc, preResult>>
    [] result.Outcome = "error" ->
         /\ processingErrors' =
              Append(processingErrors, [Index |-> pi, Err |-> result.Err])
         /\ pi' = pi + 1
         /\ UNCHANGED <<parsedLogs, ppc, preResult>>
    [] result.Outcome = "panic" ->
         /\ ppc' = "panicked"
         /\ preResult' = "panic"
         /\ UNCHANGED <<pi, parsedLogs, processingErrors>>

\* one iteration of the loop of Process
ProcessRecord ==
  /\ ppc = "loop"
  /\ pi < Len(rawDocs)
  /\ HandleResult(processRawLog(rawDocs[pi + 1]))
  /\ UNCHANGED <<rawDocs, processErr, normVars, fetchVars, tailVars,
                 regVars, repVars>>

\* the end of Process: an error when no record was parsed and some failed
ProcessReturn ==
  /\ ppc = "loop"
  /\ pi = Len(rawDocs)
  /\ processErr' = IF Len(parsedLogs) = 0 /\ Len(processingErrors) > 0
                   THEN "failed to process any logs" ELSE "nil"
  /\ ppc' = "returned"
  /\ UNCHANGED <<rawDocs, pi, parsedLogs, processingErrors, preResult, normVars, fetchVars, tailVars,
                 regVars, repVars>>

\* Pipeline.Run after Process: the run ends with the error of Process, or goes
\* on to the normalizer
RunAfterProcess ==
  /\ ppc = "returned"
  /\ preResult' = IF processErr # "nil" THEN "preprocessing failed" ELSE "normalizing"
  /\ ppc' = "done"
  /\ UNCHANGED <<rawDocs, pi, parsedLogs, processingErrors, processErr, normVars, fetchVars, tailVars,
                 regVars, repVars>>

InitPreprocessor ==
  /\ rawDocs \in UNION {[1..n -> RawPool] : n \in 0..MaxRaw}
  /\ pi = 0
  /\ parsedLogs = <<>>
  /\ processingErrors = <<>>
  /\ processErr = "nil"
  /\ ppc = "loop"
  /\ preResult = "none"

-----------------------------------------------------------------------------
(* GetRegistry and the read calls of the registry under concurrent         *)
(* callers (internal/config/known_issues.go).                              *)

\* the callers of GetRegistry
Callers == 1..MaxCallers

\* the order in which initializePredefinedIssues registers the issues
RegistrationOrder ==
  <<"ISSUE-001", "ISSUE-002", "ISSUE-003", "ISSUE-004", "ISSUE-005",
    "ISSUE-006", "ISSUE-007", "ISSUE-008", "ISSUE-009", "ISSUE-010">>

\* the element issues[i] of the slice of initializePredefinedIssues
IssueAt(i) == CHOOSE issue \in PredefinedIssues : issue.ID = RegistrationOrder[i]

\* the calls a caller makes on the registry it got
CallPool ==
  { [Op |-> "MatchContentAndService", Content |-> "invalid json: wallet fail",
     ServiceName |-> "pp-slot-api", ID |-> ""],
    [Op |-> "MatchContentAndService", Content |-> "user42 lost",
     ServiceName |-> "svc-a", ID |-> ""],
    [Op |-> "GetIssueByID", Content |-> "", ServiceName |-> "", ID |-> "ISSUE-010"],
    [Op |-> "GetIssueByID", Content |-> "", ServiceName |-> "", ID |-> "ISSUE-404"] }

\* the values MatchContentAndService can return on a registry whose map
\* holds the issues of table
MatchAmong(table, content, serviceName) ==
  LET matching == {issue \in table : IssueMatches(issue, content, serviceName)}
  IN IF matching = {} THEN {<<>>} ELSE {<<issue>> : issue \in matching}

\* GetIssueByID on a registry whose map holds the issues of table
GetIssueByID(table, id) ==
  LET found == {issue \in table : issue.ID = id}
  IN IF found = {} THEN {<<>>} ELSE {<<issue>> : issue \in found}

\* the values the call can return on a registry whose map holds table
ResultsOn(table, call) ==
  IF call.Op = "MatchContentAndService"
  THEN MatchAmong(table, call.Content, call.ServiceName)
  ELSE GetIssueByID(table, call.ID)

\* whether regOnce.Do returns without running the function: sync.Once lets a
\* caller through only after the function of the first caller has returned
DoReturns_WhileRunning(once) == once # "fresh"

DoReturns(once) == once = "done"

\* regOnce.Do in GetRegistry: the first caller allocates globalRegistry and
\* starts initializePredefinedIssues; a caller that arrives while the
\* function runs is blocked; a later caller returns at once
DoOnce(c) ==
  /\ cpc[c] = "call"
  /\ \/ /\ regOnce = "fresh"
        /\ regOnce' = "running"
        /\ globalRegistry' = "set"
        /\ regTable' = {}
        /\ registered' = 0
        /\ populations' = populations + 1
        /\ cpc' = [cpc EXCEPT ![c] = "init"]
     \/ /\ DoReturns(regOnce)
        /\ cpc' = [cpc EXCEPT ![c] = "got"]
        /\ UNCHANGED <<regOnce, globalRegistry, regTable, registered, populations>>
  /\ UNCHANGED <<calls, seen, results, normVars, fetchVars, tailVars,
                 preVars, repVars>>

\* one iteration of the loop of initializePredefinedIssues:
\* reg.issues[issue.ID] = issue
Register(c) ==
  /\ cpc[c] = "init"
  /\ registered < Len(RegistrationOrder)
  /\ regTable' = regTable \cup {IssueAt(registered + 1)}
  /\ registered' = registered + 1
  /\ UNCHANGED <<regOnce, globalRegistry, populations, cpc, calls, seen, results,
                 normVars, fetchVars, tailVars,
                 preVars, repVars>>

\* the function handed to regOnce.Do returns: the Once is done
FinishOnce(c) ==
  /\ cpc[c] = "init"
  /\ registered = Len(RegistrationOrder)
  /\ regOnce' = "done"
  /\ cpc' = [cpc EXCEPT ![c] = "got"]
  /\ UNCHANGED <<globalRegistry, regTable, registered, populations, calls, seen,
                 results, normVars, fetchVars, tailVars,
                 preVars, repVars>>

\* r.mu.RLock() of the read call: no code path takes the write lock, so the
\* read lock is granted at once; seen records the map the caller can read
RLock(c) ==
  /\ cpc[c] = "got"
  /\ seen' = [seen EXCEPT ![c] = Append(@, regTable)]
  /\ cpc' = [cpc EXCEPT ![c] = "locked"]
  /\ UNCHANGED <<regOnce, globalRegistry, regTable, registered, populations, calls,
                 results, normVars, fetchVars, tailVars,
                 preVars, repVars>>

\* the body of the read call and its deferred RUnlock
Lookup(c) ==
  /\ cpc[c] = "locked"
  /\ results' \in {[results EXCEPT ![c] = result] :
                     result \in ResultsOn(regTable, calls[c])}
  /\ seen' = [seen EXCEPT ![c] = Append(@, regTable)]
  /\ cpc' = [cpc EXCEPT ![c] = "returned"]
  /\ UNCHANGED <<regOnce, globalRegistry, regTable, registered, populations, calls,
                 normVars, fetchVars, tailVars,
                 preVars, repVars>>

InitRegistry ==
  /\ regOnce = "fresh"
  /\ globalRegistry = "nil"
  /\ regTable = {}
  /\ registered = 0
  /\ populations = 0
  /\ cpc = [c \in Callers |-> "call"]
  /\ calls \in [Callers -> CallPool]
  /\ seen = [c \in Callers |-> <<>>]
  /\ results = [c \in Callers |-> <<>>]

-----------------------------------------------------------------------------
(* Runs over one record repeated many times, and the count the reporter    *)
(* reads back from the reason (internal/reporter/reporter.go).             *)

\* the records that are repeated
CountPool ==
  { [Content |-> "user42 lost",
     ServiceName |-> "svc-7", Caller |-> "h.go:1", Timestamp |-> 600],
    [Content |-> "invalid json: wallet fail",
     ServiceName |-> "worker-2times", Caller |-> "w.go:9", Timestamp |-> 780],
    [Content |-> "invalid json: wallet fail",
     ServiceName |-> "pp-slot-api", Caller |-> "w.go:9", Timestamp |-> 780] }

\* n records like record, step minutes apart in arrival order
Repeated(record, n, step) ==
  [i \in 1..n |-> [record EXCEPT !.Timestamp = @ + step * i]]

InitCounted ==
  StartOn({Repeated(record, n, step) :
             record \in CountPool, n \in 1..MaxCount, step \in {1, 0 - 1}})

\* inputs of one group: a record repeated a minute apart, all inside one hour
\* and one 30-minute window
InitPermuted ==
  StartOn({Repeated(record, n, 1) : record \in CountPool, n \in 1..MaxPermLogs})

\* the characters of the Reason of createAnalysesFromErrorGroups
ReasonChars(serviceName, totalCount) ==
  ReasonPrefix \o Chars[serviceName] \o ReasonMiddle \o Itoa(totalCount)
    \o ReasonSuffix

\* the characters of a Reason held by analyses
CharsOfReason(reason) ==
  CHOOSE c \in {ReasonChars(errorGroups[k].ServiceName, errorGroups[k].TotalCount) :
                  k \in DOMAIN errorGroups} :
    Join(c) = reason

\* (?:U+6B21|times) at position i of s
UnitAt(s, i) ==
  HasAt(s, i, <<"U+6B21">>) \/ HasAt(s, i, <<"t", "i", "m", "e", "s">>)

\* extractCountFromReason: group 1 of the leftmost match of
\* (\d+)\s*(?:U+6B21|times), and "unknown" when there is no match.  A match
\* starts at a digit whose maximal run of digits is followed by optional
\* white space and the unit
extractCountFromReason(reason) ==
  LET starts == {i \in DOMAIN reason :
                   /\ reason[i] \in Digits
                   /\ UnitAt(reason, SpaceRunEnd(reason, DigitRunEnd(reason, i)))}
      first  == CHOOSE i \in starts : \A j \in starts : i <= j
  IN IF starts = {} THEN "unknown"
     ELSE Join(SubSeq(reason, first, DigitRunEnd(reason, first) - 1))

\* writeTopProblemsSection (the first five analyses) and
\* writeSecondaryIssuesSection (the others) read the count of every analysis
\* back from its Reason
ExtractCounts ==
  /\ npc = "done"
  /\ analyses # <<>>
  /\ reportCounts = <<>>
  /\ reportCounts' =
       [k \in DOMAIN analyses |->
          extractCountFromReason(CharsOfReason(analyses[k].Reason))]
  /\ UNCHANGED <<analysesByService, reportFiles, failedReports, reports, rpc,
                 runErr, normVars, fetchVars, tailVars,
                 preVars, regVars>>

-----------------------------------------------------------------------------
(* Report steps of Pipeline.Run (internal/pipeline/pipeline.go) and the    *)
(* content of a report (internal/reporter/reporter.go).                    *)

\* the records of the runs that go on to the reports; the fingerprints of the
\* first two start with the same eight hex digits
ReportPool ==
  { [Content |-> "user42 lost",
     ServiceName |-> "svc-7", Caller |-> "h.go:22482", Timestamp |-> 600],
    [Content |-> "user42 lost",
     ServiceName |-> "pp-slot-api", Caller |-> "h.go:28568", Timestamp |-> 600],
    [Content |-> "user42 lost",
     ServiceName |-> "pp-slot-api", Caller |-> "h.go:1", Timestamp |-> 660] }

\* group.Fingerprint[:8]
Prefix8(fingerprint) == Join(SubSeq(Chars[fingerprint], 1, 8))

\* the inner loop of generatePerServiceReports: the service of the first group
\* whose fingerprint starts with the ErrorGroupID of analysis, if there is one
ServiceFor(analysis, groups) ==
  LET hits == {k \in DOMAIN groups :
                 Prefix8(groups[k].Fingerprint) = analysis.ErrorGroupID}
  IN IF hits = {} THEN <<>>
     ELSE <<groups[CHOOSE k \in hits : \A j \in hits : k <= j].ServiceName>>

\* the outer loop of generatePerServiceReports over list
RECURSIVE GroupByService(_, _, _)
GroupByService(list, groups, byService) ==
  IF list = <<>> THEN byService
  ELSE LET service == ServiceFor(Head(list), groups)
       IN GroupByService(Tail(list), groups,
            IF service = <<>> THEN byService
            ELSE IF service[1] \in DOMAIN byService
            THEN [byService EXCEPT ![service[1]] = Append(@, Head(list))]
            ELSE (service[1] :> <<Head(list)>>) @@ byService)

\* severityRank of sortBySeverity
SeverityRank(severity) ==
  CASE severity = "critical" -> 0
    [] severity = "high" -> 1
    [] severity = "medium" -> 2
    [] severity = "low" -> 3
    [] OTHER -> 0

\* the results sort.Slice may leave for sortBySeverity: ascending rank
sortBySeverity(list) ==
  {p \in Rearrangements(list) :
     \A i \in 1..(Len(p) - 1) :
       ~(SeverityRank(p[i + 1].Severity) < SeverityRank(p[i].Severity))}

countHighPriority(list) ==
  Cardinality({k \in DOMAIN list : list[k].Severity \in {"high", "critical"}})

\* the verdict line of writeDailyVerdictSection
VerdictOf(highCount) ==
  IF highCount >= 3 THEN "critical"
  ELSE IF highCount > 0 THEN "warning"
  ELSE "normal"

\* the length of the Top-problems section
TopLimit == 5

\* what the sections written for the sorted analyses say
ContentOf(sorted, stats) ==
  [Verdict     |-> VerdictOf(countHighPriority(sorted)),
   TotalLogs   |-> stats.TotalLogs,
   ErrorGroups |-> stats.TotalErrorGroups,
   HighCount   |-> countHighPriority(sorted),
   Top         |-> SubSeq(sorted, 1, IF Len(sorted) < TopLimit THEN Len(sorted)
                                     ELSE TopLimit),
   Secondary   |-> IF Len(sorted) <= TopLimit THEN <<>>
                   ELSE SubSeq(sorted, TopLimit + 1, Len(sorted))]

\* the contents generateReportContent can produce
generateReportContent(list, stats) ==
  {ContentOf(sorted, stats) : sorted \in sortBySeverity(list)}

\* the Report GeneratePerService returns when the file is written
ReportOf(list, stats) ==
  [TotalLogs         |-> stats.TotalLogs,
   ErrorGroupCount   |-> stats.TotalErrorGroups,
   HighPriorityCount |-> countHighPriority(list)]

\* the error generatePerServiceReports returns when GeneratePerService failed
\* for the services of failing
generatePerServiceReportsErr_FirstFailure(failing) ==
  IF failing # {} THEN "report generation failed" ELSE "nil"

generatePerServiceReportsErr(failing) == "nil"

\* the contents the files of the services of byService can get
RECURSIVE ContentsFor(_, _, _)
ContentsFor(byService, services, stats) ==
  IF services = {} THEN {<<>>}
  ELSE LET service == CHOOSE x \in services : TRUE
       IN {(service :> content) @@ rest :
             content \in generateReportContent(byService[service], stats),
             rest \in ContentsFor(byService, services \ {service}, stats)}

\* Step 5 of Pipeline.Run: generatePerServiceReports.  MkdirAll or WriteFile
\* fails for the services of failing; their failure is printed
GenerateReports ==
  /\ rpc = "reports"
  /\ npc = "done"
  /\ LET byService == GroupByService(analyses, errorGroups, <<>>)
     IN \E failing \in SUBSET DOMAIN byService :
          LET written == DOMAIN byService \ failing
              err == generatePerServiceReportsErr(failing)
          IN /\ analysesByService' = byService
             /\ reportFiles' \in ContentsFor(byService, written, aggResult)
             /\ failedReports' = failing
             /\ reports' = [service \in written |->
                              ReportOf(byService[service], aggResult)]
             /\ rpc' = IF err # "nil" THEN "returned" ELSE "json"
             /\ runErr' = IF err # "nil" THEN err ELSE runErr
  /\ UNCHANGED <<reportCounts, normVars, fetchVars, tailVars,
                 preVars, regVars>>

\* Step 6 of Pipeline.Run: SaveAnalysisJSON, whose MkdirAll, MarshalIndent or
\* WriteFile can fail, and the return of Run
SaveJSON ==
  /\ rpc = "json"
  /\ \E saved \in BOOLEAN :
       runErr' = IF saved THEN "nil" ELSE "saving JSON failed"
  /\ rpc' = "returned"
  /\ UNCHANGED <<reportCounts, analysesByService, reportFiles, failedReports,
                 reports, normVars, fetchVars, tailVars,
                 preVars, regVars>>

\* the report steps waiting for the stages
InitReporter ==
  /\ reportCounts = <<>>
  /\ analysesByService = <<>>
  /\ reportFiles = <<>>
  /\ failedReports = {}
  /\ reports = <<>>
  /\ rpc = "reports"
  /\ runErr = "none"

InitReported ==
  StartOn(UNION {[1..n -> ReportPool] : n \in 1..MaxReportLogs})

\* the counts the analyses handed to the reporter are built from: one of each
\* severity
CountLevels == {50, 10, 1}

\* inputs of the fingerprints of the groups behind those analyses
SortGroupKeys ==
  << "user42 lost|svc-7|h.go:1", "user42 lost|svc-a|h.go:1",
     "user9999 lost|svc-a|h.go:1", "user [NUM] not found|svc-a|h.go:1",
     "user42 lost|pp-slot-api|h.go:1", "user42 lost|svc-7|h.go:22482",
     "invalid json: wallet fail|pp-slot-api|w.go:9",
     "invalid json: wallet fail|worker-2times|w.go:9" >>

\* the analysis of the k-th group of a service, of total count count
AnalysisInput(k, count) ==
  AnalysisOf([NewGroup(Sha256Hex(SortGroupKeys[k]), "user42 lost",
                       [ServiceName |-> "svc-7", Caller |-> "h.go:1"])
                EXCEPT !.TotalCount = count],
             <<>>)

\* the analyses of up to MaxAnalyses groups in descending order of total count
SortInputs ==
  UNION {{[k \in 1..n |-> AnalysisInput(k, counts[k])] :
            counts \in {c \in [1..n -> CountLevels] :
                          \A i \in 1..(n - 1) : c[i] >= c[i + 1]}} :
         n \in 0..MaxAnalyses}

\* generateReportContent is called on analyses and the aggregation of no groups
InitSorted ==
  /\ analyses \in SortInputs
  /\ aggResult \in AggregationResults(<<>>)
  /\ logs = <<>>
  /\ idx = 0
  /\ groupMap = <<>>
  /\ errorGroups = <<>>
  /\ npc = "done"
  /\ run = 1
  /\ firstRun = [ErrorGroups |-> <<>>, Aggregation |-> NoAggregation,
                 Analyses |-> <<>>]
  /\ reportCounts = <<>>
  /\ analysesByService = <<>>
  /\ reportFiles = <<>>
  /\ failedReports = {}
  /\ reports = <<>>
  /\ rpc = "content"
  /\ runErr = "none"

\* GeneratePerService writes the content generated for analyses
WriteContent ==
  /\ rpc = "content"
  /\ \E content \in generateReportContent(analyses, aggResult) :
       reportFiles' = ("svc-7" :> content)
  /\ rpc' = "returned"
  /\ UNCHANGED <<reportCounts, analysesByService, failedReports, reports,
                 runErr, normVars, fetchVars, tailVars,
                 preVars, regVars>>

-----------------------------------------------------------------------------
(* Concurrent per-service search (fetchConcurrent in                       *)
(* internal/fetcher/opensearch.go): the function itself, which starts the  *)
(* workers and then collects, one worker per service, and the goroutine    *)
(* that waits for the workers and closes the channels.                     *)

\* the services a configuration may list, in order
ServiceNames == <<"svc-a", "svc-b", "svc-c", "svc-d">>

Workers == DOMAIN fanServices

\* the hits of the single-service search for service
DocsOf(service) ==
  <<[Service |-> service, ID |-> 1], [Service |-> service, ID |-> 2]>>

\* what fetchSingle can return to the worker of service: an error, no hits,
\* or the hits
WorkerOutcomes(service) ==
  { [Ok |-> FALSE, Logs |-> <<>>],
    [Ok |-> TRUE, Logs |-> <<>>],
    [Ok |-> TRUE, Logs |-> DocsOf(service)] }

\* make(chan ..., len(config.Services))
ChanCap(list) == Len(list)

\* whether wg.Wait() returns for a counter
WaitReturns_NoWait(count) == TRUE

WaitReturns(count) == count = 0

\* the condition of the error return of fetchConcurrent
AllFailed_AnyError(errs, collected) == Len(errs) > 0

AllFailed(errs, collected) == Len(errs) > 0 /\ Len(collected) = 0

nonFanVars == <<normVars, fetchVars, preVars, regVars, repVars, envVars>>

\* one iteration of the launching loop: wg.Add(1) and the go statement
Launch ==
  /\ collectorPc = "launch"
  /\ launched < Len(fanServices)
  /\ launched' = launched + 1
  /\ wgCount' = wgCount + 1
  /\ workerPc' = [workerPc EXCEPT ![launched + 1] = "fetch"]
  /\ UNCHANGED <<fanServices, workerOut, resultsChan, errorsChan, closes,
                 closerPc, collectorPc, recvOpen, fanLogs, fetchErrors,
                 fanReturn, nonFanVars>>

\* after the loop: the go statement of the closing goroutine
StartCloser ==
  /\ collectorPc = "launch"
  /\ launched = Len(fanServices)
  /\ closerPc' = "wait"
  /\ collectorPc' = "select"
  /\ UNCHANGED <<fanServices, launched, wgCount, workerPc, workerOut,
                 resultsChan, errorsChan, closes, recvOpen, fanLogs,
                 fetchErrors, fanReturn, nonFanVars>>

\* a worker: buildServiceQuery and fetchSingle
WorkerFetch(w) ==
  /\ workerPc[w] = "fetch"
  /\ \E out \in WorkerOutcomes(fanServices[w]) :
       workerOut' = [workerOut EXCEPT ![w] = out]
  /\ workerPc' = [workerPc EXCEPT ![w] = "send"]
  /\ UNCHANGED <<fanServices, launched, wgCount, resultsChan, errorsChan,
                 closes, closerPc, collectorPc, recvOpen, fanLogs, fetchErrors,
                 fanReturn, nonFanVars>>

\* a worker: errors <- err or results <- logs.  A send on a closed channel
\* panics; a send waits while the buffer is full
WorkerSend(w) ==
  /\ workerPc[w] = "send"
  /\ IF workerOut[w].Ok
     THEN IF closes.Results > 0
          THEN /\ workerPc' = [workerPc EXCEPT ![w] = "panicked"]
               /\ UNCHANGED <<resultsChan, errorsChan>>
          ELSE /\ Len(resultsChan) < ChanCap(fanServices)
               /\ resultsChan' = Append(resultsChan, workerOut[w].Logs)
               /\ workerPc' = [workerPc EXCEPT ![w] = "sent"]
               /\ UNCHANGED errorsChan
     ELSE IF closes.Errors > 0
          THEN /\ workerPc' = [workerPc EXCEPT ![w] = "panicked"]
               /\ UNCHANGED <<resultsChan, errorsChan>>
          ELSE /\ Len(errorsChan) < ChanCap(fanServices)
               /\ errorsChan' = Append(errorsChan, fanServices[w])
               /\ workerPc' = [workerPc EXCEPT ![w] = "sent"]
               /\ UNCHANGED resultsChan
  /\ UNCHANGED <<fanServices, launched, wgCount, workerOut, closes, closerPc,
                 collectorPc, recvOpen, fanLogs, fetchErrors, fanReturn,
                 nonFanVars>>

\* a worker returns: the deferred wg.Done()
WorkerDone(w) ==
  /\ workerPc[w] = "sent"
  /\ wgCount' = wgCount - 1
  /\ workerPc' = [workerPc EXCEPT ![w] = "done"]
  /\ UNCHANGED <<fanServices, launched, workerOut, resultsChan, errorsChan,
                 closes, closerPc, collectorPc, recvOpen, fanLogs, fetchErrors,
                 fanReturn, nonFanVars>>

\* the closing goroutine: wg.Wait() returns
CloserWait ==
  /\ closerPc = "wait"
  /\ WaitReturns(wgCount)
  /\ closerPc' = "results"
  /\ UNCHANGED <<fanServices, launched, wgCount, workerPc, workerOut,
                 resultsChan, errorsChan, closes, collectorPc, recvOpen,
                 fanLogs, fetchErrors, fanReturn, nonFanVars>>

\* the closing goroutine: close(results)
CloseResults ==
  /\ closerPc = "results"
  /\ closes' = [closes EXCEPT !.Results = @ + 1]
  /\ closerPc' = "errors"
  /\ UNCHANGED <<fanServices, launched, wgCount, workerPc, workerOut,
                 resultsChan, errorsChan, collectorPc, recvOpen, fanLogs,
                 fetchErrors, fanReturn, nonFanVars>>

\* the closing goroutine: close(errors)
CloseErrors ==
  /\ closerPc = "errors"
  /\ closes' = [closes EXCEPT !.Errors = @ + 1]
  /\ closerPc' = "done"
  /\ UNCHANGED <<fanServices, launched, wgCount, workerPc, workerOut,
                 resultsChan, errorsChan, collectorPc, recvOpen, fanLogs,
                 fetchErrors, fanReturn, nonFanVars>>

\* where the collecting loop goes after an iteration that leaves open
AfterSelect(open) ==
  IF ~open.Results /\ ~open.Errors THEN "return" ELSE "select"

\* one iteration of the collecting loop: the select takes a case that can
\* proceed (a nil channel never can; a closed one yields ok = false once its
\* buffer is empty), then the test of the two channel variables
CollectorSelect ==
  /\ collectorPc = "select"
  /\ \/ /\ recvOpen.Results
        /\ resultsChan # <<>> \/ closes.Results > 0
        /\ IF resultsChan # <<>>
           THEN /\ fanLogs' = fanLogs \o Head(resultsChan)
                /\ resultsChan' = Tail(resultsChan)
                /\ recvOpen' = recvOpen
           ELSE /\ recvOpen' = [recvOpen EXCEPT !.Results = FALSE]
                /\ UNCHANGED <<fanLogs, resultsChan>>
        /\ UNCHANGED <<errorsChan, fetchErrors>>
     \/ /\ recvOpen.Errors
        /\ errorsChan # <<>> \/ closes.Errors > 0
        /\ IF errorsChan # <<>>
           THEN /\ fetchErrors' = Append(fetchErrors, Head(errorsChan))
                /\ errorsChan' = Tail(errorsChan)
                /\ recvOpen' = recvOpen
           ELSE /\ recvOpen' = [recvOpen EXCEPT !.Errors = FALSE]
                /\ UNCHANGED <<fetchErrors, errorsChan>>
        /\ UNCHANGED <<resultsChan, fanLogs>>
  /\ collectorPc' = AfterSelect(recvOpen')
  /\ UNCHANGED <<fanServices, launched, wgCount, workerPc, workerOut, closes,
                 closerPc, fanReturn, nonFanVars>>

\* the return of fetchConcurrent
FanReturn ==
  /\ collectorPc = "return"
  /\ fanReturn' = IF AllFailed(fetchErrors, fanLogs)
                  THEN <<[Logs |-> <<>>, Err |-> "all service fetches failed"]>>
                  ELSE <<[Logs |-> fanLogs, Err |-> "nil"]>>
  /\ collectorPc' = "returned"
  /\ UNCHANGED <<fanServices, launched, wgCount, workerPc, workerOut,
                 resultsChan, errorsChan, closes, closerPc, recvOpen, fanLogs,
                 fetchErrors, nonFanVars>>

InitFanOut ==
  /\ fanServices \in {SubSeq(ServiceNames, 1, k) : k \in 0..MaxServices}
  /\ launched = 0
  /\ wgCount = 0
  /\ workerPc = [w \in Workers |-> "idle"]
  /\ workerOut = [w \in Workers |-> [Ok |-> FALSE, Logs |-> <<>>]]
  /\ resultsChan = <<>>
  /\ errorsChan = <<>>
  /\ closes = [Results |-> 0, Errors |-> 0]
  /\ closerPc = "off"
  /\ collectorPc = "launch"
  /\ recvOpen = [Results |-> TRUE, Errors |-> TRUE]
  /\ fanLogs = <<>>
  /\ fetchErrors = <<>>
  /\ fanReturn = <<>>

-----------------------------------------------------------------------------
(* Substitution of environment variables in the configuration text         *)
(* (substituteEnvVars in internal/config/config.go).  Texts and values are *)
(* sequences of characters.                                                *)

\* the characters of the configuration texts
EnvAlphabet == {"$", "{", "}", "A", "B"}

\* the values of the variables A and B; os.Getenv gives the empty string for
\* a variable that is not set
EnvValues ==
  { <<>>, <<"x">>, <<"$", "{", "A", "}">>, <<"$", "{", "B", "}">> }

\* strings.Index(s[from:], pattern) + from as a position from 1, and 0 for -1
IndexFrom(s, pattern, from) ==
  LET hits == {i \in from..Len(s) : HasAt(s, i, pattern)}
  IN IF hits = {} THEN 0 ELSE CHOOSE i \in hits : \A j \in hits : i <= j

\* os.Getenv(varName)
Getenv(varName) ==
  IF Join(varName) \in DOMAIN environ THEN environ[Join(varName)] ELSE <<>>

\* start and end of one iteration of the loop; 0 stands for -1
SubstStart == IndexFrom(envContent, <<"$", "{">>, 1)

SubstEnd == IF SubstStart = 0 THEN 0 ELSE IndexFrom(envContent, <<"}">>, SubstStart)

\* the first half of an iteration: both strings.Index calls find their text
SubstituteFind ==
  /\ epc = "loop"
  /\ SubstStart # 0
  /\ SubstEnd # 0
  /\ epc' = "found"
  /\ UNCHANGED <<envText, environ, envContent, normVars, fetchVars, preVars,
                 regVars, repVars, fanVars>>

\* the second half: content is replaced by the text with the value of the
\* variable in the place of the first ${...}, and the loop starts again
SubstituteStep ==
  /\ epc = "found"
  /\ epc' = "loop"
  /\ envContent' = SubSeq(envContent, 1, SubstStart - 1)
                     \o Getenv(SubSeq(envContent, SubstStart + 2, SubstEnd - 1))
                     \o SubSeq(envContent, SubstEnd + 1, Len(envContent))
  /\ UNCHANGED <<envText, environ, normVars, fetchVars, preVars, regVars,
                 repVars, fanVars>>

\* the iteration that breaks out of the loop, and the return
SubstituteReturn ==
  /\ epc = "loop"
  /\ SubstStart = 0 \/ SubstEnd = 0
  /\ epc' = "returned"
  /\ UNCHANGED <<envText, environ, envContent, normVars, fetchVars, preVars,
                 regVars, repVars, fanVars>>

InitSubstitution ==
  /\ envText \in UNION {[1..n -> EnvAlphabet] : n \in 0..MaxTextLen}
  /\ environ \in [{"A", "B"} -> EnvValues]
  /\ envContent = envText
  /\ epc = "loop"

-----------------------------------------------------------------------------
(* Specifications.                                                         *)

\* the fetcher at rest, for the runs of the normalizer
IdleFetcher ==
  /\ timeRange = [Valid |-> TRUE, Duration |-> 0]
  /\ endTime = 0
  /\ indices = <<>>
  /\ urlOK = TRUE
  /\ backend = {}
  /\ fpc = "done"
  /\ wi = 0
  /\ windows = <<>>
  /\ requests = <<>>
  /\ allLogs = <<>>
  /\ fetchErr = "nil"
  /\ runResult = "none"

\* the normalizer at rest, for the runs of the fetcher
IdleNormalizer ==
  /\ logs = <<>>
  /\ idx = 0
  /\ groupMap = <<>>
  /\ errorGroups = <<>>
  /\ aggResult = NoAggregation
  /\ analyses = <<>>
  /\ npc = "done"
  /\ run = 2
  /\ firstRun = [ErrorGroups |-> <<>>, Aggregation |-> NoAggregation,
                 Analyses |-> <<>>]

\* the preprocessor at rest, for the runs of the other stages
IdlePreprocessor ==
  /\ rawDocs = <<>>
  /\ pi = 0
  /\ parsedLogs = <<>>
  /\ processingErrors = <<>>
  /\ processErr = "nil"
  /\ ppc = "done"
  /\ preResult = "none"

\* the registry after its initialization, with every caller returned
IdleRegistry ==
  /\ regOnce = "done"
  /\ globalRegistry = "set"
  /\ regTable = PredefinedIssues
  /\ registered = Len(RegistrationOrder)
  /\ populations = 1
  /\ cpc = [c \in Callers |-> "returned"]
  /\ calls = [c \in Callers |-> [Op |-> "GetIssueByID", Content |-> "",
                                  ServiceName |-> "", ID |-> "ISSUE-404"]]
  /\ seen = [c \in Callers |-> <<>>]
  /\ results = [c \in Callers |-> <<>>]

\* the reporter at rest
IdleReporter ==
  /\ reportCounts = <<>>
  /\ analysesByService = <<>>
  /\ reportFiles = <<>>
  /\ failedReports = {}
  /\ reports = <<>>
  /\ rpc = "off"
  /\ runErr = "none"

\* fetchConcurrent at rest
IdleFanOut ==
  /\ fanServices = <<>>
  /\ launched = 0
  /\ wgCount = 0
  /\ workerPc = <<>>
  /\ workerOut = <<>>
  /\ resultsChan = <<>>
  /\ errorsChan = <<>>
  /\ closes = [Results |-> 0, Errors |-> 0]
  /\ closerPc = "off"
  /\ collectorPc = "off"
  /\ recvOpen = [Results |-> TRUE, Errors |-> TRUE]
  /\ fanLogs = <<>>
  /\ fetchErrors = <<>>
  /\ fanReturn = <<>>

\* substituteEnvVars at rest
IdleEnv ==
  /\ envText = <<>>
  /\ environ = <<>>
  /\ envContent = <<>>
  /\ epc = "off"

IdleTail == IdleFanOut /\ IdleEnv

\* the components at rest that the runs of the stages do not use
IdleRest == IdlePreprocessor /\ IdleRegistry /\ IdleReporter /\ IdleTail

InitNorm == InitNormalizer /\ IdleFetcher /\ IdleRest

NextNorm == FoldRecord \/ Finalize \/ Aggregate \/ Analyze

\* one run of the stages normalize, aggregate, analyze over every input of
\* the pool
SpecNorm == InitNorm /\ [][NextNorm]_vars

NextRerun == FoldRecord \/ Finalize \/ Aggregate \/ Analyze \/ Rerun

InitRerun == InitRepeated /\ IdleFetcher /\ IdleRest

\* two runs of the stages over the same input
SpecRerun == InitRerun /\ [][NextRerun]_vars

InitFetch == InitFetcher /\ IdleNormalizer /\ IdleRest

NextFetch == ParseRange \/ FetchWindow \/ FetchReturn \/ RunAfterFetch

\* one run of the fetch step of the pipeline
SpecFetch == InitFetch /\ [][NextFetch]_vars

InitPre == InitPreprocessor /\ IdleNormalizer /\ IdleFetcher /\ IdleRegistry /\ IdleReporter /\ IdleTail

NextPre == ProcessRecord \/ ProcessReturn \/ RunAfterProcess

\* one run of the preprocessing step of the pipeline
SpecPre == InitPre /\ [][NextPre]_vars

InitReg ==
  InitRegistry /\ IdleNormalizer /\ IdleFetcher /\ IdlePreprocessor /\ IdleReporter /\ IdleTail

NextReg ==
  \E c \in Callers : DoOnce(c) \/ Register(c) \/ FinishOnce(c) \/ RLock(c) \/ Lookup(c)

\* concurrent callers that each call GetRegistry and then make a read call
SpecReg == InitReg /\ [][NextReg]_vars

InitCount ==
  InitCounted /\ IdleFetcher /\ IdleRest

NextCount == FoldRecord \/ Finalize \/ Aggregate \/ Analyze \/ ExtractCounts

\* one run of the pipeline over a repeated record, up to the report
SpecCount == InitCount /\ [][NextCount]_vars

InitPerm ==
  InitPermuted /\ IdleFetcher /\ IdleRest

NextPerm == FoldRecord \/ Finalize \/ Aggregate \/ RerunPermuted

\* Normalize and Aggregate over an input, then over a rearrangement of it
SpecPerm == InitPerm /\ [][NextPerm]_vars

InitReport ==
  InitReported /\ InitReporter /\ IdleFetcher /\ IdlePreprocessor /\ IdleRegistry /\ IdleTail

NextReport ==
  FoldRecord \/ Finalize \/ Aggregate \/ Analyze \/ GenerateReports \/ SaveJSON

\* one run of the pipeline from Normalize to its return
SpecReport == InitReport /\ [][NextReport]_vars

InitSort ==
  InitSorted /\ IdleFetcher /\ IdlePreprocessor /\ IdleRegistry /\ IdleTail

NextSort == WriteContent

\* the content of one report for the analyses of one service
SpecSort == InitSort /\ [][NextSort]_vars

InitFan ==
  /\ InitFanOut /\ IdleEnv
  /\ IdleNormalizer /\ IdleFetcher /\ IdlePreprocessor /\ IdleRegistry /\ IdleReporter

WorkerStep(w) == WorkerFetch(w) \/ WorkerSend(w) \/ WorkerDone(w)

NextFan ==
  \/ Launch \/ StartCloser
  \/ \E w \in Workers : WorkerStep(w)
  \/ CloserWait \/ CloseResults \/ CloseErrors
  \/ CollectorSelect \/ FanReturn

\* one call of fetchConcurrent under every interleaving of its goroutines
SpecFan == InitFan /\ [][NextFan]_vars

\* the same under a scheduler that lets every goroutine that can take a step
\* take it eventually
SpecFanFair ==
  /\ SpecFan
  /\ WF_vars(Launch) /\ WF_vars(StartCloser)
  /\ \A w \in 1..MaxServices : WF_vars(w \in Workers /\ WorkerStep(w))
  /\ WF_vars(CloserWait) /\ WF_vars(CloseResults) /\ WF_vars(CloseErrors)
  /\ WF_vars(CollectorSelect) /\ WF_vars(FanReturn)

InitEnv ==
  /\ InitSubstitution /\ IdleFanOut
  /\ IdleNormalizer /\ IdleFetcher /\ IdlePreprocessor /\ IdleRegistry /\ IdleReporter

NextEnv == SubstituteFind \/ SubstituteStep \/ SubstituteReturn

\* one call of substituteEnvVars that goes on whenever it can
SpecEnv == InitEnv /\ [][NextEnv]_vars /\ WF_vars(NextEnv)

-----------------------------------------------------------------------------
(* Properties of the normalizer.                                           *)

RECURSIVE SumCounts(_)
SumCounts(groups) ==
  IF groups = <<>> THEN 0 ELSE Head(groups).TotalCount + SumCounts(Tail(groups))

RECURSIVE SumOver(_, _)
SumOver(m, keys) ==
  IF keys = {} THEN 0
  ELSE LET k == CHOOSE x \in keys : TRUE IN m[k] + SumOver(m, keys \ {k})

\* the sum of the values of a map[string]int
SumValues(m) == SumOver(m, DOMAIN m)

SeqToSet(s) == {s[i] : i \in DOMAIN s}

\* C1. Count conservation: the total_count values of the groups in groupMap
\* add up to the number of records folded so far, and the total_count values
\* of the groups returned by Normalize add up to the number of input records.
C1_CountConservation ==
  /\ SumOver([fp \in DOMAIN groupMap |-> groupMap[fp].TotalCount], DOMAIN groupMap) = idx
  /\ npc = "done" => SumCounts(errorGroups) = Len(logs)

\* three records were grouped into two groups, one of them holding two records
C1_Witness ==
  /\ npc = "done"
  /\ Len(logs) = 3
  /\ Len(errorGroups) = 2
  /\ errorGroups[1].TotalCount = 2

\* C2. Hourly sum conservation: after every record folded into a group, and in
\* every group returned by Normalize, the values of the hourly distribution of
\* the group add up to its total_count.
C2_HourlySumConservation ==
  /\ \A fp \in DOMAIN groupMap :
       SumValues(groupMap[fp].TimeDistribution) = groupMap[fp].TotalCount
  /\ \A k \in DOMAIN errorGroups :
       SumValues(errorGroups[k].TimeDistribution) = errorGroups[k].TotalCount

\* a returned group of three records spread over two hours, two in one hour
C2_Witness ==
  /\ npc = "done"
  /\ \E k \in DOMAIN errorGroups :
       /\ errorGroups[k].TotalCount = 3
       /\ Cardinality(DOMAIN errorGroups[k].TimeDistribution) = 2

\* the content with every maximal run of digits replaced by one mark
RECURSIVE DigitSkeletonFrom(_, _)
DigitSkeletonFrom(s, i) ==
  IF i > Len(s) THEN <<>>
  ELSE IF s[i] \in Digits
       THEN <<"#">> \o DigitSkeletonFrom(s, DigitRunEnd(s, i))
       ELSE <<s[i]>> \o DigitSkeletonFrom(s, i + 1)

\* two records of one service and caller whose contents are byte-identical
\* or differ only in runs of digits
SameUpToDigitRuns(a, b) ==
  /\ a.ServiceName = b.ServiceName
  /\ a.Caller = b.Caller
  /\ DigitSkeletonFrom(Chars[a.Content], 1) = DigitSkeletonFrom(Chars[b.Content], 1)

FingerprintOf(log) ==
  calculateFingerprint(normalizeContent(log.Content), log.ServiceName, log.Caller)

\* C3. Fingerprint equivalence: two folded records of one service and caller
\* whose contents are identical or differ only in runs of digits (also runs
\* adjacent to letters) have the same fingerprint and lie in one group whose
\* total_count counts all such records.
C3_FingerprintEquivalence ==
  \A i, j \in 1..idx :
    SameUpToDigitRuns(logs[i], logs[j]) =>
      /\ FingerprintOf(logs[i]) = FingerprintOf(logs[j])
      /\ \E fp \in DOMAIN groupMap :
           /\ fp = FingerprintOf(logs[i])
           /\ groupMap[fp].TotalCount >=
                Cardinality({k \in 1..idx : SameUpToDigitRuns(logs[i], logs[k])})

\* C4. Fingerprint injectivity: a record is merged only into a group whose
\* (normalized_content, service_name, caller) equals its own, so records with
\* distinct tuples never share a fingerprint.
C4_FingerprintInjectivity ==
  \A fp \in DOMAIN groupMap :
    \A k \in DOMAIN groupMap[fp].Samples :
      LET g == groupMap[fp]
          s == g.Samples[k]
      IN <<normalizeContent(s.Content), s.ServiceName, s.Caller>>
           = <<g.NormalizedContent, g.ServiceName, g.CallerFile>>

\* C5. Deterministic output: the second run of the stages over the same
\* input returns the groups of the first run in the same order, the same
\* analyses (issue ids included) and the same aggregation, which is the
\* content of the report.
C5_DeterministicOutput ==
  (run = 2 /\ npc = "done") =>
    /\ errorGroups = firstRun.ErrorGroups
    /\ analyses = firstRun.Analyses
    /\ aggResult = firstRun.Aggregation

HexValue ==
     ("0" :> 0) @@ ("1" :> 1) @@ ("2" :> 2) @@ ("3" :> 3) @@ ("4" :> 4)
  @@ ("5" :> 5) @@ ("6" :> 6) @@ ("7" :> 7) @@ ("8" :> 8) @@ ("9" :> 9)
  @@ ("a" :> 10) @@ ("b" :> 11) @@ ("c" :> 12) @@ ("d" :> 13)
  @@ ("e" :> 14) @@ ("f" :> 15)

\* a < b for two hex strings, lexicographically
RECURSIVE HexLess(_, _)
HexLess(a, b) ==
  IF b = <<>> THEN FALSE
  ELSE IF a = <<>> THEN TRUE
  ELSE IF Head(a) # Head(b) THEN HexValue[Head(a)] < HexValue[Head(b)]
  ELSE HexLess(Tail(a), Tail(b))

\* C6. Group output order: the returned list is ordered by descending
\* total_count, groups of equal total_count by ascending fingerprint.
C6_GroupOutputOrder ==
  npc = "done" =>
    \A k \in 1..(Len(errorGroups) - 1) :
      \/ errorGroups[k].TotalCount > errorGroups[k + 1].TotalCount
      \/ /\ errorGroups[k].TotalCount = errorGroups[k + 1].TotalCount
         /\ HexLess(Chars[errorGroups[k].Fingerprint],
                    Chars[errorGroups[k + 1].Fingerprint])

-----------------------------------------------------------------------------
(* Properties of the fetcher.                                              *)

Max(a, b) == IF a >= b THEN a ELSE b

FetchReturned == fpc \in {"returned", "done"} /\ timeRange.Valid

C8_NoDocumentTwice ==
  (fpc = "done" /\ Len(indices) = 1) =>
    \A a, b \in DOMAIN allLogs : allLogs[a].ID = allLogs[b].ID => a = b

\* the hits of the response to a request that was sent
HitsOf(r) == Search(backend, r.Index, [Gte |-> r.Gte, Lte |-> r.Lte, Size |-> r.Size])

AllWindowsFailed ==
  \/ ~urlOK
  \/ \A k \in DOMAIN requests : requests[k].Outcome # "ok"

\* C10. Hard failure exactly when all windows fail: the run ends with an
\* error when every window failed and without error when a window succeeded.
C10_HardFailureIffAllFail ==
  (fpc = "done" /\ timeRange.Valid) => (runResult = "error" <=> AllWindowsFailed)

-----------------------------------------------------------------------------
(* Properties of the preprocessor.                                         *)

\* the documents of docs that processRawLog turns into a record
Parsable(docs) == SelectSeq(docs, LAMBDA r : processRawLog(r).Outcome = "ok")

\* the records Process is to emit for docs, in input order
Emitted(docs) == [k \in 1..Len(Parsable(docs)) |-> processRawLog(Parsable(docs)[k]).Log]

\* C11: parse errors are per record.  When the preprocessing step of a run is
\* over, every record that failed was dropped on its own, every other record
\* was emitted, and the run goes on to the normalizer without a fatal error,
\* also when every record of a non-empty input failed.
C11_ParseErrorsPerRecord ==
  ppc = "done" =>
    /\ Len(processingErrors) = Len(rawDocs) - Len(Parsable(rawDocs))
    /\ parsedLogs = Emitted(rawDocs)
    /\ preResult = "normalizing"

\* the normalized levels of an emitted record
NormalizedLevels == {"error", "warn", "info", "debug", "trace"}

\* C12: every record the preprocessor has emitted carries a level that is one
\* of the lowercase values error, warn, info, debug, trace.
C12_EmittedLevel ==
  \A k \in DOMAIN parsedLogs : parsedLogs[k].Level \in NormalizedLevels

\* C13: service extraction degrades silently.  No document makes
\* ExtractServiceName abort: a document with an empty service hint whose host
\* name is absent or not a string is handled like any other, at worst failing
\* that one record.
C13_ExtractionNeverPanics == ppc # "panicked"

-----------------------------------------------------------------------------
(* Properties of the known-issue registry and of the analysis step.        *)

\* the place of the issue id in the registration order
Position(id) == CHOOSE k \in DOMAIN RegistrationOrder : RegistrationOrder[k] = id

\* the id of the earliest registered issue that qualifies for content and
\* serviceName, "" when none does
EarliestRegistered(content, serviceName) ==
  LET matching == {issue \in PredefinedIssues :
                     IssueMatches(issue, content, serviceName)}
  IN IF matching = {} THEN ""
     ELSE (CHOOSE issue \in matching :
             \A other \in matching : Position(issue.ID) <= Position(other.ID)).ID

\* C14: registry match.  The issue MatchContentAndService returned for a
\* group is the earliest registered issue whose regex matches the content and
\* whose service list admits the service, and nothing when no issue
\* qualifies.
C14_RegistryMatchOrder ==
  npc = "done" =>
    \A k \in DOMAIN analyses :
      analyses[k].IssueID =
        EarliestRegistered(errorGroups[k].NormalizedContent,
                           errorGroups[k].ServiceName)

\* C15: registry read-safety.  Whatever the interleaving of the callers, the
\* table is populated at most once, every map a caller can read under the
\* read lock is the fully initialized table, and every read call returns a
\* value that the same call returns on the fully initialized table.
C15_RegistryReadSafety ==
  /\ populations <= 1
  /\ \A c \in Callers :
       /\ \A k \in DOMAIN seen[c] : seen[c][k] = PredefinedIssues
       /\ cpc[c] = "returned" =>
            results[c] \in ResultsOn(PredefinedIssues, calls[c])

\* every caller has returned from its read call, one of them after it ran the
\* initialization and another with ISSUE-010, the last issue registered
C15_Witness ==
  /\ populations = 1
  /\ \A c \in Callers : cpc[c] = "returned" /\ Len(seen[c]) = 2
  /\ \E c \in Callers :
       calls[c].Op = "GetIssueByID" /\ results[c] # <<>> /\ results[c][1].ID = "ISSUE-010"
  /\ \E c \in Callers :
       calls[c].Op = "MatchContentAndService" /\ results[c] # <<>>

\* C16: the severity of an analysis is "high" exactly when the group's total
\* count is at least 50, "medium" exactly when it is at least 10 and below
\* 50, and "low" exactly when it is below 10; it is never "critical"
C16_SeverityAssignment ==
  npc = "done" =>
    \A k \in DOMAIN analyses :
      LET n   == errorGroups[k].TotalCount
          sev == analyses[k].Severity
      IN /\ (sev = "high") <=> (n >= 50)
         /\ (sev = "medium") <=> (n >= 10 /\ n < 50)
         /\ (sev = "low") <=> (n < 10)
         /\ sev # "critical"

C16_Witness ==
  /\ npc = "done"
  /\ \E k \in DOMAIN analyses :
       /\ errorGroups[k].TotalCount = 50
       /\ analyses[k].Severity = "high"

\* C17: extractCountFromReason applied to the reason formatted for a count
\* and a service name returns the decimal representation of the count
C17_ReasonRoundTrip ==
  reportCounts # <<>> =>
    \A k \in DOMAIN reportCounts :
      reportCounts[k] = Join(Itoa(errorGroups[k].TotalCount))

\* C18: in every group Normalize returns, the number of retained samples is
\* total_count when total_count is below 3 and otherwise lies between 3 and
\* 5, and the retained samples are in ascending order of timestamp
C18_SampleRetention ==
  npc # "loop" =>
    \A k \in DOMAIN errorGroups :
      LET samples == errorGroups[k].Samples
          n       == errorGroups[k].TotalCount
      IN /\ n < 3 => Len(samples) = n
         /\ n >= 3 => Len(samples) >= 3 /\ Len(samples) <= 5
         /\ \A i \in 1..(Len(samples) - 1) :
              samples[i].Timestamp <= samples[i + 1].Timestamp

\* a group of more than five records that arrived latest first
C18_Witness ==
  /\ npc = "normalized"
  /\ Len(logs) > 5
  /\ logs[1].Timestamp > logs[2].Timestamp
  /\ \E k \in DOMAIN errorGroups :
       /\ errorGroups[k].TotalCount = Len(logs)
       /\ Len(errorGroups[k].Samples) = 3
       /\ errorGroups[k].Samples[1].Timestamp < errorGroups[k].Samples[3].Timestamp

\* what C19 compares of the groups of a run
GroupFacts(groups) ==
  {[Fingerprint |-> groups[k].Fingerprint,
    TotalCount |-> groups[k].TotalCount,
    TimeDistribution |-> groups[k].TimeDistribution,
    Samples |-> groups[k].Samples] : k \in DOMAIN groups}

\* what C19 compares of the aggregation of a run
RangeFacts(result) ==
  <<result.TimeStats.EarliestLogTime, result.TimeStats.LatestLogTime,
    result.TimeStats.PeakWindowStart, result.TimeStats.PeakWindowEnd,
    result.TimeStats.PeakWindowCount>>

\* C19: Normalize followed by Aggregate over a rearrangement of an input
\* yields the same groups with the same total count, hourly distribution and
\* retained samples, and the same earliest and latest log time and peak
\* window, as over the input
C19_OrderInsensitivity ==
  (run = 2 /\ npc = "aggregated") =>
    /\ GroupFacts(errorGroups) = GroupFacts(firstRun.ErrorGroups)
    /\ RangeFacts(aggResult) = RangeFacts(firstRun.Aggregation)

\* C20: when the requested duration D is positive and smaller than the
\* window size W, exactly one window is queried, it spans [E-D, E], and no
\* request asks for documents older than E-D
C20_ShortRange ==
  (timeRange.Valid /\ timeRange.Duration > 0 /\ timeRange.Duration < WindowDuration) =>
    /\ FetchReturned => Len(windows) = 1
    /\ \A k \in DOMAIN windows :
         /\ windows[k].Start = endTime - timeRange.Duration
         /\ windows[k].End = endTime
    /\ \A k \in DOMAIN requests :
         requests[k].Gte >= (endTime - timeRange.Duration) \div 1000

-----------------------------------------------------------------------------
(* Properties of the report steps.                                         *)

\* C21: when the fetch step returns no documents, Run returns without error,
\* with no groups, and a report with total_logs = 0 and the verdict "normal"
\* is produced
C21_EmptyInput ==
  (fpc = "done" /\ fetchErr = "nil" /\ allLogs = <<>>) =>
    /\ runResult = "empty"
    /\ errorGroups = <<>>
    /\ \E service \in DOMAIN reportFiles :
         /\ reportFiles[service].TotalLogs = 0
         /\ reportFiles[service].Verdict = "normal"

\* C22: a failure to generate the report of one service is printed, the
\* reports of the other services are generated and recorded in the result,
\* and Run goes on to the JSON snapshot; Run returns an error only when the
\* snapshot fails
C22_EmissionErrorsPerService ==
  /\ rpc \in {"json", "returned"} =>
       /\ DOMAIN reports = DOMAIN analysesByService \ failedReports
       /\ DOMAIN reportFiles = DOMAIN reports
  /\ rpc = "json" => runErr = "none"
  /\ rpc = "returned" => runErr \in {"nil", "saving JSON failed"}

\* a run in which one report failed, another was recorded, and the snapshot
\* was saved
C22_Witness ==
  /\ rpc = "returned"
  /\ runErr = "nil"
  /\ failedReports # {}
  /\ DOMAIN reports # {}

\* how often analysis occurs in the bucket of service
Occurrences(analysis, service) ==
  IF service \in DOMAIN analysesByService
  THEN Cardinality({i \in DOMAIN analysesByService[service] :
                      analysesByService[service][i] = analysis})
  ELSE 0

\* C27: generatePerServiceReports puts every analysis into exactly one
\* bucket, the one of the service name of the group it was derived from
C27_PerServiceBundling ==
  rpc \in {"json", "returned"} =>
    \A k \in DOMAIN analyses :
      \A service \in DOMAIN analysesByService \cup {errorGroups[k].ServiceName} :
        Occurrences(analyses[k], service)
          = IF service = errorGroups[k].ServiceName THEN 1 ELSE 0

\* the place of analysis in list
IndexIn(list, analysis) == CHOOSE i \in DOMAIN list : list[i] = analysis

-----------------------------------------------------------------------------
(* Properties of the peaks.                                                *)

\* the largest value of a distribution that is not empty
MaxValue(distribution) ==
  CHOOSE v \in {distribution[k] : k \in DOMAIN distribution} :
    \A k \in DOMAIN distribution : distribution[k] <= v

\* C24: every group Normalize returns has a peak window, whose count is the
\* largest count of the group's hourly distribution and whose density is
\* that count divided by 60
C24_GroupPeakWindow ==
  npc # "loop" =>
    \A k \in DOMAIN errorGroups :
      /\ errorGroups[k].PeakWindow # NilPeakWindow
      /\ errorGroups[k].PeakWindow[1].Count = MaxValue(errorGroups[k].TimeDistribution)
      /\ errorGroups[k].PeakWindow[1].Density
           = Quotient(errorGroups[k].PeakWindow[1].Count, 60)

\* C25: after Aggregate, peak_count is the largest value of the global
\* hourly distribution and peak_hour is the lowest hour that has it
C25_GlobalHourlyPeak ==
  (npc \in {"aggregated", "done"} /\ errorGroups # <<>>) =>
    LET hourly == aggResult.TimeStats.HourlyDistribution
        stats  == aggResult.TimeStats
    IN /\ stats.PeakCount = MaxValue(hourly)
       /\ stats.PeakHour \in DOMAIN hourly
       /\ hourly[stats.PeakHour] = stats.PeakCount
       /\ \A hour \in DOMAIN hourly :
            hourly[hour] = stats.PeakCount => stats.PeakHour <= hour

\* whether some queried window contains the second of instant t
Queried(t) ==
  \E k \in DOMAIN windows :
    /\ FormatRFC3339(windows[k].Start) <= FormatRFC3339(t)
    /\ FormatRFC3339(t) <= FormatRFC3339(windows[k].End)

\* C28: for a requested duration D >= W the queried windows cover the whole
\* of [E-D, E]: consecutive windows leave no gap, and the instants of the
\* range, taken every half window from E down to E-D, lie in a queried window
C28_RangeCoverage ==
  (FetchReturned /\ timeRange.Duration >= WindowDuration) =>
    /\ \A k \in DOMAIN windows :
         k < Len(windows) => windows[k].Start = windows[k + 1].End
    /\ \A step \in 0..(timeRange.Duration \div (WindowDuration \div 2)) :
         Queried(endTime - step * (WindowDuration \div 2))

-----------------------------------------------------------------------------
(* Properties of the concurrent per-service search.                        *)

\* how often doc occurs in list
CountIn(list, doc) == Cardinality({i \in DOMAIN list : list[i] = doc})

\* how often doc occurs in the logs of the workers that succeeded
RECURSIVE CountInWorkers(_, _)
CountInWorkers(ws, doc) ==
  IF ws = {} THEN 0
  ELSE LET w == CHOOSE x \in ws : TRUE
       IN (IF workerOut[w].Ok THEN CountIn(workerOut[w].Logs, doc) ELSE 0)
          + CountInWorkers(ws \ {w}, doc)

AllDocs == UNION {SeqToSet(DocsOf(ServiceNames[k])) : k \in DOMAIN ServiceNames}

FanOutSafe ==
  /\ closes.Results <= 1
  /\ closes.Errors <= 1
  /\ (closes.Results > 0 \/ closes.Errors > 0) =>
       \A w \in Workers : workerPc[w] = "done"
  /\ \A w \in Workers :
       /\ workerPc[w] # "panicked"
       /\ workerPc[w] = "send" =>
            /\ Len(resultsChan) < ChanCap(fanServices)
            /\ Len(errorsChan) < ChanCap(fanServices)
  /\ collectorPc \in {"return", "returned"} =>
       closes.Results = 1 /\ closes.Errors = 1

-----------------------------------------------------------------------------
(* Properties of the substitution of environment variables.                *)

\* C30: substituteEnvVars returns for every configuration text and every
\* environment, also when the value of a variable contains text of the form
\* ${...} or the text has an unterminated "${"
C30_SubstitutionTerminates == <>(epc = "returned")

====
